---- MODULE Spec2Model ----
(***************************************************************************)
(* A model of the Figma linter plugin: the main-thread message handlers of *)
(* src/main.ts, the scan (scanForIssues / traverse / isLintableNode), the  *)
(* detachment rules and the provenance check of utils/lint.ts, and the     *)
(* radius audit log.                                                       *)
(*                                                                         *)
(* Text that the code inspects character by character (node names, style   *)
(* names, exception patterns, style ids) is a sequence of one-character    *)
(* strings, so that toLowerCase / startsWith / includes / split / trim are *)
(* computed as the code computes them.  Text that the code only copies     *)
(* (messages, details, decision paths) is a TLA+ string.                   *)
(***************************************************************************)
EXTENDS Integers, Sequences, FiniteSets, TLC

(***************************************************************************)
(* String helpers (JavaScript String methods used by the code)             *)
(***************************************************************************)
Upper == <<"A","B","C","D","E","F","G","H","I","J","K","L","M",
           "N","O","P","Q","R","S","T","U","V","W","X","Y","Z">>
Lower == <<"a","b","c","d","e","f","g","h","i","j","k","l","m",
           "n","o","p","q","r","s","t","u","v","w","x","y","z">>

ToLowerChar(c) ==
  IF \E i \in 1..Len(Upper) : Upper[i] = c
  THEN Lower[CHOOSE i \in 1..Len(Upper) : Upper[i] = c]
  ELSE c

\* String.prototype.toLowerCase
ToLowerCase(s) == [i \in 1..Len(s) |-> ToLowerChar(s[i])]

\* String.prototype.startsWith
StartsWith(s, p) == Len(p) <= Len(s) /\ SubSeq(s, 1, Len(p)) = p

\* String.prototype.endsWith
EndsWith(s, p) == Len(p) <= Len(s) /\ SubSeq(s, Len(s) - Len(p) + 1, Len(s)) = p

\* String.prototype.includes
Includes(s, p) ==
  \E i \in 1..(Len(s) - Len(p) + 1) : SubSeq(s, i, i + Len(p) - 1) = p

IsSpace(c) == c = " "

\* String.prototype.trim
Trim(s) ==
  IF \A i \in 1..Len(s) : IsSpace(s[i]) THEN <<>>
  ELSE LET a == CHOOSE i \in 1..Len(s) :
                  /\ ~IsSpace(s[i])
                  /\ \A j \in 1..(i - 1) : IsSpace(s[j])
           b == CHOOSE i \in 1..Len(s) :
                  /\ ~IsSpace(s[i])
                  /\ \A j \in (i + 1)..Len(s) : IsSpace(s[j])
       IN SubSeq(s, a, b)

\* String.prototype.split(',')
RECURSIVE SplitComma(_)
SplitComma(s) ==
  IF \A i \in 1..Len(s) : s[i] # ","
  THEN <<s>>
  ELSE LET k == CHOOSE i \in 1..Len(s) :
                  s[i] = "," /\ \A j \in 1..(i - 1) : s[j] # ","
       IN <<SubSeq(s, 1, k - 1)>> \o SplitComma(SubSeq(s, k + 1, Len(s)))

\* Array.prototype.filter(item => item.length > 0)
RECURSIVE FilterNonEmpty(_)
FilterNonEmpty(seq) ==
  IF seq = <<>> THEN <<>>
  ELSE (IF Len(Head(seq)) > 0 THEN <<Head(seq)>> ELSE <<>>) \o FilterNonEmpty(Tail(seq))

\* exceptionsString.split(',').map(item => item.trim()).filter(item => item.length > 0)
ParseExceptions(exceptionsString) ==
  LET parts == SplitComma(exceptionsString)
      trimmed == [i \in 1..Len(parts) |-> Trim(parts[i])]
  IN FilterNonEmpty(trimmed)

\* The body of the `some` callback shared by isExceptionStyle, matchesExceptions
\* and the node-name test of checkLibrarySources.
ExceptionMatches(text, exception) ==
  LET trimmedException == Trim(exception)
  IN IF trimmedException = <<>> THEN FALSE
     ELSE IF EndsWith(trimmedException, <<"*">>)
          THEN StartsWith(ToLowerCase(text),
                          ToLowerCase(SubSeq(trimmedException, 1, Len(trimmedException) - 1)))
          ELSE Includes(ToLowerCase(text), ToLowerCase(trimmedException))

\* utils/lint.ts matchesExceptions(styleName, exceptions)
matchesExceptions(styleName, exceptions) ==
  IF Len(exceptions) = 0 THEN FALSE
  ELSE IF Trim(styleName) = <<>> THEN FALSE
  ELSE \E i \in 1..Len(exceptions) : ExceptionMatches(styleName, exceptions[i])

(***************************************************************************)
(* The host document (read-only for the plugin)                            *)
(***************************************************************************)
\* figma.mixed, and the value of a property the node does not have
Mixed == -1
Undefined == -2

\* A run of `rep` identical sibling leaves is written as one node with rep > 1;
\* only leaves that produce neither issues nor audit entries are written so.
BulkRun == 5000

NoText == <<>>

\* Display names
NameCard == <<"C","a","r","d">>
NameTitle == <<"T","i","t","l","e">>
NameDot == <<"D","o","t">>
NameGhost == <<"G","h","o","s","t">>
NameBanner == <<"R","e","t","a","i","l"," ","U","I","/","b","o","r","d","e","r","-","b","a","n","n","e","r">>
NameVault == <<"V","a","u","l","t">>
NameChip == <<"C","h","i","p">>
NameButton == <<"B","u","t","t","o","n">>
NameMaster == <<"M","a","s","t","e","r">>
NameBulk == <<"B","u","l","k">>
NameSlice == <<"S","l","i","c","e">>
NameGrid == <<"G","r","i","d">>
NameCell == <<"C","e","l","l">>
NameGroup == <<"G","r","o","u","p">>
NameStar == <<"S","t","a","r">>

\* Library ids and style ids ("<prefix>:<libraryId>,<key>"; a local id has no comma)
LibA == <<"A">>
LibB == <<"B">>
StyleFillA == <<"S",":","A",",","1",":","2">>
StyleFillB == <<"S",":","B",",","1",":","3">>
StyleEffectA == <<"S",":","A",",","1",":","4">>
StyleTextLocal == <<"S",":","7","7",":","1">>

\* figma.getStyleById(id).name
StyleNames ==
  (StyleFillA :> <<"B","r","a","n","d","/","P","r","i","m","a","r","y">>) @@
  (StyleFillB :> <<"I","n","k">>) @@
  (StyleEffectA :> <<"R","e","t","a","i","l"," ","U","I","/","S","h","a","d","o","w">>) @@
  (StyleTextLocal :> <<"B","o","d","y">>)

\* figma.variables.getVariableById(id).variableCollectionId
VariableCollectionOf ==
  ("varRadiusA" :> "colA") @@ ("varRadiusB" :> "colB") @@
  ("varGapA" :> "colA") @@ ("varLocal" :> "colLocal")

\* figma.variables.getVariableById(id).name
VariableNames ==
  ("varRadiusA" :> <<"r","a","d","i","u","s","/","m","d">>) @@
  ("varRadiusB" :> <<"r","a","d","i","u","s","/","l","g">>) @@
  ("varGapA" :> <<"R","e","t","a","i","l"," ","U","I","/","g","a","p">>) @@
  ("varLocal" :> <<"i","n","k">>)

\* figma.variables.getVariableCollectionById(id).libraryId (NoText: a local collection)
CollectionLibraryId ==
  ("colA" :> LibA) @@ ("colB" :> LibB) @@ ("colLocal" :> NoText)

\* The library list the host reports (id -> name)
HostLibraries == (LibB :> "Design System")

NoBindings == [p \in {} |-> "none"]

Blank ==
  [ id |-> "", parentType |-> "PAGE",
    name |-> NoText, type |-> "FRAME", locked |-> FALSE, visible |-> TRUE,
    children |-> <<>>, rep |-> 1,
    hasFills |-> FALSE, fills |-> <<>>, fillStyleId |-> NoText,
    hasStrokes |-> FALSE, strokes |-> <<>>, strokeStyleId |-> NoText,
    textStyleId |-> NoText,
    hasEffects |-> FALSE, effectStyleId |-> NoText,
    hasCornerRadius |-> FALSE, cornerRadius |-> Undefined,
    hasIndividualCornerRadii |-> FALSE,
    topLeftRadius |-> Undefined, topRightRadius |-> Undefined,
    bottomLeftRadius |-> Undefined, bottomRightRadius |-> Undefined,
    boundVariables |-> NoBindings,
    hasLayout |-> FALSE, layoutMode |-> "NONE", itemSpacing |-> 0,
    paddingLeft |-> 0, paddingRight |-> 0, paddingTop |-> 0, paddingBottom |-> 0,
    primaryAxisAlignItems |-> "MIN", layoutWrap |-> FALSE,
    mainComponent |-> "none",
    raises |-> "none" ]   \* the block of checkDetachedStyles in which the host throws

\* The property groups a FrameNode / ComponentNode / InstanceNode always carries
FrameLike(type, name, tl, tr, bl, br) ==
  [ Blank EXCEPT !.type = type, !.name = name,
      !.hasFills = TRUE, !.hasStrokes = TRUE, !.hasEffects = TRUE,
      !.hasCornerRadius = TRUE, !.hasIndividualCornerRadii = TRUE,
      !.cornerRadius = IF tl = tr /\ tr = bl /\ bl = br THEN tl ELSE Mixed,
      !.topLeftRadius = tl, !.topRightRadius = tr,
      !.bottomLeftRadius = bl, !.bottomRightRadius = br,
      !.hasLayout = TRUE ]

\* RectangleNode: fills, strokes, effects, aggregate and individual corners
RectLike(name, tl, tr, bl, br) ==
  [ FrameLike("RECTANGLE", name, tl, tr, bl, br) EXCEPT !.hasLayout = FALSE ]

\* EllipseNode / StarNode: the aggregate cornerRadius only
RoundLike(type, name, radius) ==
  [ Blank EXCEPT !.type = type, !.name = name,
      !.hasFills = TRUE, !.hasStrokes = TRUE, !.hasEffects = TRUE,
      !.hasCornerRadius = TRUE, !.cornerRadius = radius ]

Alias(varId) == [id |-> varId]

\* The layers of the current page, by node id
Layers ==
  ("card" :> [ FrameLike("FRAME", NameCard, 8, 8, 8, 8) EXCEPT
                 !.fills = <<"SOLID">>, !.strokes = <<"SOLID">>,
                 !.layoutMode = "HORIZONTAL", !.itemSpacing = 16,
                 !.paddingLeft = 8, !.paddingRight = 8,
                 !.children = <<"title", "dot", "ghost">> ]) @@
  ("title" :> [ Blank EXCEPT !.type = "TEXT", !.name = NameTitle,
                 !.hasFills = TRUE, !.hasStrokes = TRUE, !.hasEffects = TRUE,
                 !.fills = <<"SOLID">>, !.fillStyleId = StyleFillA ]) @@
  ("dot" :> [ RoundLike("ELLIPSE", NameDot, 0) EXCEPT !.fills = <<"SOLID">> ]) @@
  ("ghost" :> [ RectLike(NameGhost, 8, 8, 0, 8) EXCEPT
                 !.visible = FALSE, !.fills = <<"SOLID">> ]) @@
  ("banner" :> [ FrameLike("FRAME", NameBanner, 4, 4, 4, 4) EXCEPT
                 !.fills = <<"SOLID">>, !.effectStyleId = StyleEffectA,
                 !.layoutMode = "VERTICAL", !.itemSpacing = 12,
                 !.primaryAxisAlignItems = "SPACE_BETWEEN",
                 !.paddingTop = 4 ]) @@
  ("vault" :> [ FrameLike("FRAME", NameVault, 0, 0, 0, 0) EXCEPT
                 !.locked = TRUE, !.children = <<"chip">> ]) @@
  ("chip" :> [ RectLike(NameChip, 4, 4, 4, 4) EXCEPT
                 !.fills = <<"SOLID">>,
                 !.boundVariables = ("cornerRadius" :> Alias("varRadiusA")) ]) @@
  ("button" :> [ FrameLike("INSTANCE", NameButton, 6, 6, 6, 6) EXCEPT
                 !.fills = <<"SOLID">>, !.fillStyleId = StyleFillB,
                 !.mainComponent = "master",
                 !.boundVariables =
                    ("topLeftRadius" :> Alias("varRadiusB")) @@
                    ("topRightRadius" :> Alias("varRadiusB")) @@
                    ("bottomLeftRadius" :> Alias("varRadiusB")) @@
                    ("bottomRightRadius" :> Alias("varRadiusB")) ]) @@
  ("master" :> [ FrameLike("COMPONENT", NameMaster, 6, 6, 6, 6) EXCEPT
                 !.boundVariables = ("topLeftRadius" :> Alias("varRadiusB")) ]) @@
  ("bulk" :> [ FrameLike("FRAME", NameBulk, 0, 0, 0, 0) EXCEPT
                 !.children = <<"slice">> ]) @@
  ("slice" :> [ Blank EXCEPT !.type = "SLICE", !.name = NameSlice, !.rep = BulkRun ]) @@
  ("grid" :> [ FrameLike("FRAME", NameGrid, 0, 0, 0, 0) EXCEPT
                 !.children = <<"cell">> ]) @@
  ("cell" :> [ FrameLike("FRAME", NameCell, 0, 0, 0, 0) EXCEPT
                 !.locked = TRUE, !.rep = BulkRun ]) @@
  ("group" :> [ Blank EXCEPT !.type = "GROUP", !.name = NameGroup,
                 !.children = <<"star">> ]) @@
  ("star" :> [ RoundLike("STAR", NameStar, 2) EXCEPT
                 !.fills = <<"GRADIENT_LINEAR">> ]) @@
  ("stale" :> [ FrameLike("FRAME", <<"S","t","a","l","e">>, 0, 0, 0, 0) EXCEPT
                 !.fills = <<"SOLID">>, !.strokes = <<"SOLID">>,
                 !.raises = "strokes", !.children = <<"leaf">> ]) @@
  ("leaf" :> [ RectLike(<<"L","e","a","f">>, 0, 0, 0, 0) EXCEPT
                 !.fills = <<"SOLID">>, !.fillStyleId = StyleTextLocal ])

\* node.parent.type: "PAGE" for the page's children
ParentType(layers, id) ==
  IF \E p \in DOMAIN layers : \E i \in 1..Len(layers[p].children) : layers[p].children[i] = id
  THEN layers[CHOOSE p \in DOMAIN layers :
                \E i \in 1..Len(layers[p].children) : layers[p].children[i] = id].type
  ELSE "PAGE"

\* A node object knows its id and its parent
Attach(layers) ==
  [id \in DOMAIN layers |->
     [layers[id] EXCEPT !.id = id, !.parentType = ParentType(layers, id)]]

\* figma.getNodeById
Nodes == Attach(Layers)

NodeIds == DOMAIN Nodes

\* figma.currentPage.children
PageChildren ==
  <<"card", "banner", "vault", "button", "master", "bulk", "grid", "group", "stale">>

(***************************************************************************)
(* utils/lint.ts: issue constructors                                       *)
(***************************************************************************)
hasAutoLayout(node) == node.hasLayout /\ node.layoutMode # "NONE"

hasCornerRadius(node) == node.hasCornerRadius

getAutoLayoutInfo(node) ==
  IF node.hasLayout
  THEN [ isAutoLayout |-> node.layoutMode # "NONE", layoutMode |-> node.layoutMode,
         layoutAlign |-> node.primaryAxisAlignItems,
         layoutWrap |-> IF node.layoutWrap THEN "WRAP" ELSE "NO_WRAP" ]
  ELSE [ isAutoLayout |-> FALSE, layoutMode |-> "NONE",
         layoutAlign |-> "NONE", layoutWrap |-> "NO_WRAP" ]

\* A LintIssue; an absent optional field is the empty text
Issue(node, type, message, details, sourceLibraryId, sourceLibraryName) ==
  [ nodeId |-> node.id, nodeName |-> node.name, type |-> type, message |-> message,
    details |-> details, sourceLibraryId |-> sourceLibraryId,
    sourceLibraryName |-> sourceLibraryName, nodeType |-> node.type,
    layout |-> getAutoLayoutInfo(node) ]

createFillIssue(node) ==
  Issue(node, "fill", "Fill not linked to a style or variable", "", NoText, "")

createStrokeIssue(node) ==
  Issue(node, "stroke", "Stroke not linked to a style or variable", "", NoText, "")

createTextIssue(node) ==
  Issue(node, "text", "Text not linked to a style or variable", "", NoText, "")

createRadiusIssue(node, radiusDetails) ==
  Issue(node, "radius", "Corner radius not linked to a variable", radiusDetails, NoText, "")

createGapIssue(node) ==
  Issue(node, "gap", "Item spacing not linked to a variable", "", NoText, "")

createPaddingIssue(node, paddingDetails) ==
  Issue(node, "padding", "Padding not linked to a variable", paddingDetails, NoText, "")

hasVariableBinding(node, property) == property \in DOMAIN node.boundVariables

TypeText(itemType) ==
  CASE itemType = "fill" -> "Color Fill"
    [] itemType = "stroke" -> "Color Stroke"
    [] itemType = "text" -> "Text Style"
    [] itemType = "radius" -> "Radius"
    [] itemType = "gap" -> "Gap"
    [] itemType = "padding" -> "Padding"
    [] OTHER -> itemType

createWrongLibraryIssue(node, itemType, sourceLibraryId, sourceLibraryName) ==
  Issue(node, itemType, "Wrong library/" \o TypeText(itemType), "",
        sourceLibraryId, sourceLibraryName)

\* getStyleLibraryInfo(styleId): "null", or the library id of the style
\* ("local" when the id has no comma)
StripPrefix(styleId) ==
  \* styleId.replace(/^[a-zA-Z]+:/, '')
  IF \E k \in 2..Len(styleId) :
        /\ styleId[k] = ":"
        /\ \A j \in 1..(k - 1) : \E u \in 1..Len(Upper) :
              styleId[j] = Upper[u] \/ styleId[j] = Lower[u]
  THEN LET k == CHOOSE k \in 2..Len(styleId) :
                  /\ styleId[k] = ":"
                  /\ \A j \in 1..(k - 1) : \E u \in 1..Len(Upper) :
                        styleId[j] = Upper[u] \/ styleId[j] = Lower[u]
       IN SubSeq(styleId, k + 1, Len(styleId))
  ELSE styleId

Local == <<"l","o","c","a","l">>

getStyleLibraryInfo(styleId) ==
  IF styleId = NoText THEN [isNull |-> TRUE, libraryId |-> NoText]
  ELSE IF ~Includes(styleId, <<",">>) THEN [isNull |-> FALSE, libraryId |-> Local]
  ELSE LET parts == SplitComma(StripPrefix(styleId))
       IN IF Len(parts) < 2 THEN [isNull |-> TRUE, libraryId |-> NoText]
          ELSE [isNull |-> FALSE, libraryId |-> parts[1]]

(***************************************************************************)
(* utils/lint.ts: the radius audit log                                     *)
(***************************************************************************)
convertToString(value) ==
  IF value = Mixed THEN "mixed"
  ELSE IF value = Undefined THEN "undefined"
  ELSE ToString(value)

\* A corner field of an audit entry: set only when the value is not undefined
CornerField(value) == IF value = Undefined THEN "" ELSE convertToString(value)

\* A variant of the audit entry that flags every entry as an issue
AuditEntryFlagged(node, isIssue, decisionPath, bindingDetails, inspectionDetails) ==
     [ nodeId |-> node.id, nodeName |-> node.name, nodeType |-> node.type,
       cornerRadius |-> convertToString(node.cornerRadius),
       topLeftRadius |-> CornerField(node.topLeftRadius),
       topRightRadius |-> CornerField(node.topRightRadius),
       bottomLeftRadius |-> CornerField(node.bottomLeftRadius),
       bottomRightRadius |-> CornerField(node.bottomRightRadius),
       isIssue |-> TRUE, decisionPath |-> decisionPath,
       bindingDetails |-> bindingDetails, inspectionDetails |-> inspectionDetails ]

AuditEntry(node, isIssue, decisionPath, bindingDetails, inspectionDetails) ==
     [ nodeId |-> node.id, nodeName |-> node.name, nodeType |-> node.type,
       cornerRadius |-> convertToString(node.cornerRadius),
       topLeftRadius |-> CornerField(node.topLeftRadius),
       topRightRadius |-> CornerField(node.topRightRadius),
       bottomLeftRadius |-> CornerField(node.bottomLeftRadius),
       bottomRightRadius |-> CornerField(node.bottomRightRadius),
       isIssue |-> isIssue, decisionPath |-> decisionPath,
       bindingDetails |-> bindingDetails, inspectionDetails |-> inspectionDetails ]

BoolText(b) == IF b THEN "true" ELSE "false"

\* Array.prototype.join(', ')
RECURSIVE JoinComma(_)
JoinComma(items) ==
  IF items = <<>> THEN ""
  ELSE IF Len(items) = 1 THEN items[1]
  ELSE items[1] \o ", " \o JoinComma(Tail(items))

(***************************************************************************)
(* utils/lint.ts: checkDetachedStyles                                      *)
(***************************************************************************)
\* A variant of IsNumber with the test inverted
IsMixed(value) == value = Mixed

IsNumber(value) == value # Mixed /\ value # Undefined

\* The test on node.mainComponent of isInstanceWithInheritedVariables
hasRadiusVariable(mainComponent) ==
  \/ hasVariableBinding(mainComponent, "cornerRadius")
  \/ hasVariableBinding(mainComponent, "topLeftRadius")
  \/ hasVariableBinding(mainComponent, "topRightRadius")
  \/ hasVariableBinding(mainComponent, "bottomLeftRadius")
  \/ hasVariableBinding(mainComponent, "bottomRightRadius")

\* The booleans the corner-radius rule computes before its decision tree
RadiusFacts(node) ==
  LET topLeft == node.topLeftRadius
      topRight == node.topRightRadius
      bottomLeft == node.bottomLeftRadius
      bottomRight == node.bottomRightRadius
      hasCornerRadiusVariable == hasVariableBinding(node, "cornerRadius")
      hasUniformIndividualCorners ==
        /\ node.hasIndividualCornerRadii
        /\ topLeft = topRight /\ topRight = bottomLeft /\ bottomLeft = bottomRight
        /\ topLeft > 0
      isInstanceWithInheritedVariables ==
        /\ node.type = "INSTANCE"
        /\ node.mainComponent # "none"
        /\ hasRadiusVariable(Nodes[node.mainComponent])
      isComponentOrInstance == node.type = "COMPONENT" \/ node.type = "INSTANCE"
      hasTopLeftVariable ==
        hasVariableBinding(node, "topLeftRadius") \/ hasVariableBinding(node, "topLeftRadius.value")
      hasTopRightVariable ==
        hasVariableBinding(node, "topRightRadius") \/ hasVariableBinding(node, "topRightRadius.value")
      hasBottomLeftVariable ==
        hasVariableBinding(node, "bottomLeftRadius") \/ hasVariableBinding(node, "bottomLeftRadius.value")
      hasBottomRightVariable ==
        hasVariableBinding(node, "bottomRightRadius") \/ hasVariableBinding(node, "bottomRightRadius.value")
      hasIndividualCornerVariables ==
        hasTopLeftVariable \/ hasTopRightVariable \/ hasBottomLeftVariable \/ hasBottomRightVariable
  IN [ hasCornerRadiusVariable |-> hasCornerRadiusVariable,
       hasUniformIndividualCorners |-> hasUniformIndividualCorners,
       isIndividualModeConsistent |-> hasUniformIndividualCorners /\ topLeft = node.cornerRadius,
       isInstanceWithInheritedVariables |-> isInstanceWithInheritedVariables,
       isComponentOrInstance |-> isComponentOrInstance,
       isInsideComponentInstance |->
         isComponentOrInstance \/ node.parentType = "COMPONENT" \/ node.parentType = "INSTANCE",
       hasTopLeftVariable |-> hasTopLeftVariable,
       hasTopRightVariable |-> hasTopRightVariable,
       hasBottomLeftVariable |-> hasBottomLeftVariable,
       hasBottomRightVariable |-> hasBottomRightVariable,
       allCornersHaveVariables |->
         /\ (topLeft = 0 \/ topLeft = Undefined \/ hasTopLeftVariable)
         /\ (topRight = 0 \/ topRight = Undefined \/ hasTopRightVariable)
         /\ (bottomLeft = 0 \/ bottomLeft = Undefined \/ hasBottomLeftVariable)
         /\ (bottomRight = 0 \/ bottomRight = Undefined \/ hasBottomRightVariable),
       hasAnyRadiusBinding |->
         \/ hasCornerRadiusVariable
         \/ hasVariableBinding(node, "cornerRadius.value")
         \/ hasVariableBinding(node, "cornerRadiusValue")
         \/ hasIndividualCornerVariables
         \/ isInstanceWithInheritedVariables
         \/ (node.hasEffects /\ node.effectStyleId # NoText) ]

bindingDetails(f) ==
  "cornerRadius: " \o BoolText(f.hasCornerRadiusVariable) \o ", " \o
  "topLeft: " \o BoolText(f.hasTopLeftVariable) \o ", " \o
  "topRight: " \o BoolText(f.hasTopRightVariable) \o ", " \o
  "bottomLeft: " \o BoolText(f.hasBottomLeftVariable) \o ", " \o
  "bottomRight: " \o BoolText(f.hasBottomRightVariable) \o ", " \o
  "inherited: " \o BoolText(f.isInstanceWithInheritedVariables)

inspectionDetails(f) ==
  "isComponentOrInstance: " \o BoolText(f.isComponentOrInstance) \o ", " \o
  "isInsideComponent: " \o BoolText(f.isInsideComponentInstance) \o ", " \o
  "hasUniformCorners: " \o BoolText(f.hasUniformIndividualCorners) \o ", " \o
  "consistent: " \o BoolText(f.isIndividualModeConsistent) \o ", " \o
  "allCornersHaveVars: " \o BoolText(f.allCornersHaveVariables) \o ", " \o
  "anyRadiusBinding: " \o BoolText(f.hasAnyRadiusBinding)

\* A variant of missingBindings that lists every corner with a value > 0
everyRoundedCorner(node, f) ==
     (IF node.topLeftRadius > 0
      THEN <<"topLeft: " \o ToString(node.topLeftRadius)>> ELSE <<>>) \o
     (IF node.topRightRadius > 0
      THEN <<"topRight: " \o ToString(node.topRightRadius)>> ELSE <<>>) \o
     (IF node.bottomLeftRadius > 0
      THEN <<"bottomLeft: " \o ToString(node.bottomLeftRadius)>> ELSE <<>>) \o
     (IF node.bottomRightRadius > 0
      THEN <<"bottomRight: " \o ToString(node.bottomRightRadius)>> ELSE <<>>)

\* The corners of path 3 that have a value > 0 and no variable of their own
missingBindings(node, f) ==
     (IF node.topLeftRadius > 0 /\ ~f.hasTopLeftVariable
      THEN <<"topLeft: " \o ToString(node.topLeftRadius)>> ELSE <<>>) \o
     (IF node.topRightRadius > 0 /\ ~f.hasTopRightVariable
      THEN <<"topRight: " \o ToString(node.topRightRadius)>> ELSE <<>>) \o
     (IF node.bottomLeftRadius > 0 /\ ~f.hasBottomLeftVariable
      THEN <<"bottomLeft: " \o ToString(node.bottomLeftRadius)>> ELSE <<>>) \o
     (IF node.bottomRightRadius > 0 /\ ~f.hasBottomRightVariable
      THEN <<"bottomRight: " \o ToString(node.bottomRightRadius)>> ELSE <<>>)

\* The corner-radius block: the issues it pushes and the audit entries it appends
\* A variant of the decision tree that tests the unbound aggregate radius before
\* the exclusion by bindings
CheckRadiusValueFirst(node, f, missing) ==
  IF ~node.hasCornerRadius THEN [issues |-> <<>>, audit |-> <<>>]
  ELSE IF IsNumber(node.cornerRadius) /\ node.cornerRadius > 0 /\ ~f.hasCornerRadiusVariable
  THEN [ issues |-> <<createRadiusIssue(node, "uniform")>>,
         audit |-> <<AuditEntry(node, TRUE, "ISSUE: Uniform radius without variables",
                                bindingDetails(f), inspectionDetails(f))>> ]
  ELSE IF (f.isInstanceWithInheritedVariables \/ f.hasAnyRadiusBinding) /\ f.allCornersHaveVariables
  THEN [ issues |-> <<>>,
         audit |-> <<AuditEntry(node, FALSE, "EXCLUDED: Has necessary variable bindings",
                                bindingDetails(f), inspectionDetails(f))>> ]
  ELSE IF node.hasIndividualCornerRadii /\ Len(missing) > 0
  THEN [ issues |-> <<createRadiusIssue(node, "mixed (" \o JoinComma(missing) \o ")")>>,
         audit |-> <<AuditEntry(node, TRUE, "ISSUE: Mixed corners without variables",
                                bindingDetails(f), inspectionDetails(f))>> ]
  ELSE [issues |-> <<>>, audit |-> <<>>]

\* A variant of the decision tree whose first path is for inheriting instances only
CheckRadiusInheritedFirst(node, f, missing) ==
  IF ~node.hasCornerRadius THEN [issues |-> <<>>, audit |-> <<>>]
  ELSE IF f.isInstanceWithInheritedVariables /\ f.allCornersHaveVariables
  THEN [ issues |-> <<>>,
         audit |-> <<AuditEntry(node, FALSE, "EXCLUDED: Has necessary variable bindings",
                                bindingDetails(f), inspectionDetails(f))>> ]
  ELSE IF f.hasUniformIndividualCorners /\ f.hasAnyRadiusBinding /\ f.allCornersHaveVariables
  THEN [ issues |-> <<>>,
         audit |-> <<AuditEntry(node, FALSE, "EXCLUDED: Uniform corners with variables",
                                bindingDetails(f), inspectionDetails(f))>> ]
  ELSE IF IsNumber(node.cornerRadius) /\ node.cornerRadius > 0 /\ ~f.hasCornerRadiusVariable
  THEN [ issues |-> <<createRadiusIssue(node, "uniform")>>,
         audit |-> <<AuditEntry(node, TRUE, "ISSUE: Uniform radius without variables",
                                bindingDetails(f), inspectionDetails(f))>> ]
  ELSE [issues |-> <<>>, audit |-> <<>>]

CheckRadius(node, f, missing) ==
  LET entry(isIssue, path) ==
        AuditEntry(node, isIssue, path, bindingDetails(f), inspectionDetails(f))
  IN IF ~node.hasCornerRadius THEN [issues |-> <<>>, audit |-> <<>>]
     ELSE IF (f.isInstanceWithInheritedVariables \/ f.hasAnyRadiusBinding) /\ f.allCornersHaveVariables
     THEN [ issues |-> <<>>,
            audit |-> <<entry(FALSE, "EXCLUDED: Has necessary variable bindings")>> ]
     ELSE IF f.hasUniformIndividualCorners /\ f.hasAnyRadiusBinding /\ f.allCornersHaveVariables
     THEN [ issues |-> <<>>,
            audit |-> <<entry(FALSE, "EXCLUDED: Uniform corners with variables")>> ]
     ELSE IF IsNumber(node.cornerRadius) /\ node.cornerRadius > 0 /\ ~f.hasCornerRadiusVariable
     THEN [ issues |-> <<createRadiusIssue(node, "uniform")>>,
            audit |-> <<entry(TRUE, "ISSUE: Uniform radius without variables")>> ]
     ELSE IF node.hasIndividualCornerRadii
     THEN IF Len(missing) > 0
          THEN [ issues |->
                   <<createRadiusIssue(node,
                       IF f.hasUniformIndividualCorners THEN "uniform"
                       ELSE "mixed (" \o JoinComma(missing) \o ")")>>,
                 audit |->
                   <<entry(TRUE,
                       IF f.hasUniformIndividualCorners
                       THEN "ISSUE: Uniform individual corners without variables"
                       ELSE "ISSUE: Mixed corners without variables (" \o JoinComma(missing) \o ")")>> ]
          ELSE [ issues |-> <<>>,
                 audit |-> <<entry(FALSE, "EXCLUDED: No corners missing variables")>> ]
     ELSE [issues |-> <<>>, audit |-> <<>>]

\* The corner-radius block on a node, from the booleans computed for it
RadiusBlock(node, f) == CheckRadius(node, f, missingBindings(node, f))

CheckFills(node) ==
  LET hasFillStyle == node.fillStyleId # NoText
      hasFillVariable == hasVariableBinding(node, "fills")
  IN IF /\ node.hasFills /\ Len(node.fills) > 0
        /\ node.fills[1] = "SOLID" /\ ~hasFillStyle /\ ~hasFillVariable
     THEN <<createFillIssue(node)>> ELSE <<>>

CheckStrokes(node) ==
  LET hasStrokeStyle == node.strokeStyleId # NoText
      hasStrokeVariable == hasVariableBinding(node, "strokes")
  IN IF /\ node.hasStrokes /\ Len(node.strokes) > 0
        /\ node.strokes[1] = "SOLID" /\ ~hasStrokeStyle /\ ~hasStrokeVariable
     THEN <<createStrokeIssue(node)>> ELSE <<>>

CheckText(node) ==
  LET hasTextStyle == node.textStyleId # NoText
      hasTextVariable ==
        \/ hasVariableBinding(node, "characters")
        \/ hasVariableBinding(node, "textStyleId")
        \/ hasVariableBinding(node, "fontName")
        \/ hasVariableBinding(node, "fontSize")
  IN IF node.type = "TEXT" /\ ~hasTextStyle /\ ~hasTextVariable
     THEN <<createTextIssue(node)>> ELSE <<>>

\* A variant of hasAutoSpacing that tests for centred items
hasCenteredItems(node) ==
  node.hasLayout /\ node.primaryAxisAlignItems = "CENTER"

hasAutoSpacing(node) ==
  node.hasLayout /\ node.primaryAxisAlignItems = "SPACE_BETWEEN"

CheckGap(node) ==
     IF /\ hasAutoLayout(node) /\ node.itemSpacing > 0
        /\ ~hasVariableBinding(node, "itemSpacing") /\ ~hasAutoSpacing(node)
     THEN <<createGapIssue(node)>> ELSE <<>>

\* A variant of the padding block that reports each axis on its own
CheckPaddingPerAxis(node) ==
  IF ~hasAutoLayout(node) THEN <<>>
  ELSE (IF \/ (node.paddingLeft > 0 /\ ~hasVariableBinding(node, "paddingLeft"))
           \/ (node.paddingRight > 0 /\ ~hasVariableBinding(node, "paddingRight"))
        THEN <<createPaddingIssue(node, "horizontal")>> ELSE <<>>) \o
       (IF \/ (node.paddingTop > 0 /\ ~hasVariableBinding(node, "paddingTop"))
           \/ (node.paddingBottom > 0 /\ ~hasVariableBinding(node, "paddingBottom"))
        THEN <<createPaddingIssue(node, "vertical")>> ELSE <<>>)

CheckPadding(node) ==
  LET hasHorizontalPaddingIssue ==
        \/ (node.paddingLeft > 0 /\ ~hasVariableBinding(node, "paddingLeft"))
        \/ (node.paddingRight > 0 /\ ~hasVariableBinding(node, "paddingRight"))
      hasVerticalPaddingIssue ==
        \/ (node.paddingTop > 0 /\ ~hasVariableBinding(node, "paddingTop"))
        \/ (node.paddingBottom > 0 /\ ~hasVariableBinding(node, "paddingBottom"))
  IN IF hasAutoLayout(node) /\ (hasHorizontalPaddingIssue \/ hasVerticalPaddingIssue)
     THEN <<createPaddingIssue(node,
              IF hasHorizontalPaddingIssue /\ ~hasVerticalPaddingIssue THEN "horizontal"
              ELSE IF ~hasHorizontalPaddingIssue /\ hasVerticalPaddingIssue THEN "vertical"
              ELSE "all")>>
     ELSE <<>>

\* The blocks inside the try of checkDetachedStyles, in their order
Blocks == <<"fills", "strokes", "text", "radius", "gap", "padding">>

\* The block is run: no read of the node throws, or it throws in a later block; the
\* catch logs the error and the function returns what it has pushed so far
Reached(node, block) ==
  \/ node.raises = "none"
  \/ \E i, j \in 1..Len(Blocks) : Blocks[i] = block /\ Blocks[j] = node.raises /\ i < j

\* checkDetachedStyles(node): the issues returned and the audit entries appended
checkDetachedStyles(node) ==
  LET radius == RadiusBlock(node, RadiusFacts(node))
  IN IF node.locked \/ ~node.visible
     THEN [issues |-> <<>>, audit |-> <<>>]
     ELSE [ issues |-> (IF Reached(node, "fills") THEN CheckFills(node) ELSE <<>>) \o
                       (IF Reached(node, "strokes") THEN CheckStrokes(node) ELSE <<>>) \o
                       (IF Reached(node, "text") THEN CheckText(node) ELSE <<>>) \o
                       (IF Reached(node, "radius") THEN radius.issues ELSE <<>>) \o
                       (IF Reached(node, "gap") THEN CheckGap(node) ELSE <<>>) \o
                       (IF Reached(node, "padding") THEN CheckPadding(node) ELSE <<>>),
            audit |-> IF Reached(node, "radius") THEN radius.audit ELSE <<>> ]

(***************************************************************************)
(* utils/lint.ts: checkLibrarySources                                      *)
(***************************************************************************)
\* The spelling of the property names a boundVariables object can hold
PropertyText ==
  ("fills" :> <<"f","i","l","l","s">>) @@
  ("strokes" :> <<"s","t","r","o","k","e","s">>) @@
  ("characters" :> <<"c","h","a","r","a","c","t","e","r","s">>) @@
  ("textStyleId" :> <<"t","e","x","t","S","t","y","l","e","I","d">>) @@
  ("fontName" :> <<"f","o","n","t","N","a","m","e">>) @@
  ("fontSize" :> <<"f","o","n","t","S","i","z","e">>) @@
  ("cornerRadius" :> <<"c","o","r","n","e","r","R","a","d","i","u","s">>) @@
  ("topLeftRadius" :> <<"t","o","p","L","e","f","t","R","a","d","i","u","s">>) @@
  ("topRightRadius" :> <<"t","o","p","R","i","g","h","t","R","a","d","i","u","s">>) @@
  ("bottomLeftRadius" :> <<"b","o","t","t","o","m","L","e","f","t","R","a","d","i","u","s">>) @@
  ("bottomRightRadius" :> <<"b","o","t","t","o","m","R","i","g","h","t","R","a","d","i","u","s">>) @@
  ("itemSpacing" :> <<"i","t","e","m","S","p","a","c","i","n","g">>) @@
  ("paddingLeft" :> <<"p","a","d","d","i","n","g","L","e","f","t">>) @@
  ("paddingRight" :> <<"p","a","d","d","i","n","g","R","i","g","h","t">>) @@
  ("paddingTop" :> <<"p","a","d","d","i","n","g","T","o","p">>) @@
  ("paddingBottom" :> <<"p","a","d","d","i","n","g","B","o","t","t","o","m">>) @@
  ("strokeWeight" :> <<"s","t","r","o","k","e","W","e","i","g","h","t">>)

\* Object.entries(boundVariables) enumerates the bound properties in this order
PropertyOrder == <<"fills", "strokes", "characters", "textStyleId", "fontName", "fontSize", "cornerRadius", "topLeftRadius", "topRightRadius", "bottomLeftRadius", "bottomRightRadius", "itemSpacing", "paddingLeft", "paddingRight", "paddingTop", "paddingBottom", "strokeWeight">>

\* A variant of the name lookup that never consults the map
UnknownLibraryName(libraryMap, libraryId) == "Unknown library"

\* libraryMap.get(id)?.name || 'Unknown library'
LibraryName(libraryMap, libraryId) ==
  IF libraryId \in DOMAIN libraryMap /\ libraryMap[libraryId] # ""
  THEN libraryMap[libraryId] ELSE "Unknown library"

\* The skip of a node whose name matches an exception
NodeNameExcepted(node, exceptions) ==
  /\ Len(exceptions) > 0
  /\ \E i \in 1..Len(exceptions) : ExceptionMatches(node.name, exceptions[i])

\* One of the four style blocks (fill, stroke, text, effect)
CheckStyleSource(node, styleId, itemType, selectedLibraryId, libraryMap, exceptions) ==
  LET styleInfo == getStyleLibraryInfo(styleId)
      styleName == IF styleId \in DOMAIN StyleNames THEN StyleNames[styleId] ELSE NoText
  IN IF styleId = NoText THEN <<>>
     ELSE IF styleName # NoText /\ matchesExceptions(styleName, exceptions) THEN <<>>
     ELSE IF ~styleInfo.isNull /\ styleInfo.libraryId = Local THEN <<>>
     ELSE IF ~styleInfo.isNull /\ styleInfo.libraryId # selectedLibraryId
     THEN <<createWrongLibraryIssue(node, itemType, styleInfo.libraryId,
                                    LibraryName(libraryMap, styleInfo.libraryId))>>
     ELSE <<>>

\* The issue type inferred from the name of a bound property
VariableIssueType(propName) ==
  LET name == PropertyText[propName]
  IN IF Includes(name, <<"r","a","d","i","u","s">>) THEN "radius"
     ELSE IF Includes(name, <<"g","a","p">>)
             \/ Includes(name, <<"i","t","e","m","S","p","a","c","i","n","g">>) THEN "gap"
     ELSE IF Includes(name, <<"p","a","d","d","i","n","g">>) THEN "padding"
     ELSE IF Includes(name, <<"s","t","r","o","k","e">>) THEN "stroke"
     ELSE IF Includes(name, <<"t","e","x","t">>) \/ Includes(name, <<"f","o","n","t">>) THEN "text"
     ELSE "fill"

\* A variant of the callback that compares the library id of every collection
CheckVariableSourceAnyCollection(node, propName, selectedLibraryId, libraryMap) ==
  IF propName \notin DOMAIN node.boundVariables THEN <<>>
  ELSE IF "id" \notin DOMAIN node.boundVariables[propName] THEN <<>>
  ELSE IF node.boundVariables[propName].id \notin DOMAIN VariableCollectionOf THEN <<>>
  ELSE IF CollectionLibraryId[VariableCollectionOf[node.boundVariables[propName].id]]
             # selectedLibraryId
  THEN <<createWrongLibraryIssue(node, VariableIssueType(propName),
            CollectionLibraryId[VariableCollectionOf[node.boundVariables[propName].id]],
            LibraryName(libraryMap,
               CollectionLibraryId[VariableCollectionOf[node.boundVariables[propName].id]]))>>
  ELSE <<>>

\* The callback of Object.entries(boundVars).forEach for one property
CheckVariableSource(node, propName, selectedLibraryId, libraryMap) ==
  LET binding == node.boundVariables[propName]
      varId == binding.id
      collection == VariableCollectionOf[varId]
      libraryId == CollectionLibraryId[collection]
  IN IF propName \notin DOMAIN node.boundVariables THEN <<>>
     ELSE IF "id" \notin DOMAIN binding THEN <<>>
     ELSE IF varId \notin DOMAIN VariableCollectionOf THEN <<>>
     ELSE IF collection \notin DOMAIN CollectionLibraryId THEN <<>>
     ELSE IF libraryId # NoText /\ libraryId # selectedLibraryId
     THEN <<createWrongLibraryIssue(node, VariableIssueType(propName), libraryId,
                                    LibraryName(libraryMap, libraryId))>>
     ELSE <<>>

RECURSIVE CheckVariableSources(_, _, _, _)
CheckVariableSources(node, props, selectedLibraryId, libraryMap) ==
  IF props = <<>> THEN <<>>
  ELSE CheckVariableSource(node, Head(props), selectedLibraryId, libraryMap) \o
       CheckVariableSources(node, Tail(props), selectedLibraryId, libraryMap)

checkLibrarySources(node, selectedLibraryId, libraryMap, exceptions) ==
     IF NodeNameExcepted(node, exceptions) THEN <<>>
     ELSE (IF node.hasFills
           THEN CheckStyleSource(node, node.fillStyleId, "fill",
                                 selectedLibraryId, libraryMap, exceptions)
           ELSE <<>>) \o
          (IF node.hasStrokes
           THEN CheckStyleSource(node, node.strokeStyleId, "stroke",
                                 selectedLibraryId, libraryMap, exceptions)
           ELSE <<>>) \o
          (IF node.type = "TEXT"
           THEN CheckStyleSource(node, node.textStyleId, "text",
                                 selectedLibraryId, libraryMap, exceptions)
           ELSE <<>>) \o
          (IF node.hasEffects
           THEN CheckStyleSource(node, node.effectStyleId, "fill",
                                 selectedLibraryId, libraryMap, exceptions)
           ELSE <<>>) \o
          CheckVariableSources(node, PropertyOrder, selectedLibraryId, libraryMap)

(***************************************************************************)
(* utils/report.ts: generateLintReport, as the figures and lists it prints *)
(***************************************************************************)
Categories == {"fill", "stroke", "text", "radius", "gap", "padding"}

RECURSIVE CountWhere(_, _, _)
\* The number of records of seq whose field `field` has value `value`
CountWhere(seq, field, value) ==
  IF seq = <<>> THEN 0
  ELSE (IF Head(seq)[field] = value THEN 1 ELSE 0) + CountWhere(Tail(seq), field, value)

generateLintReport(issues, settings, auditLog) ==
  IF Len(issues) = 0
  THEN [ text |-> "No lint issues found in current selection/document.",
         total |-> 0, byType |-> [c \in Categories |-> 0], issues |-> <<>>,
         settings |-> settings, auditTotal |-> 0, auditIssues |-> 0 ]
  ELSE [ text |-> "FIGMA LINT REPORT",
         total |-> Len(issues),
         byType |-> [c \in Categories |-> CountWhere(issues, "type", c)],
         issues |-> issues,
         settings |-> settings,
         auditTotal |-> Len(auditLog),
         auditIssues |-> CountWhere(auditLog, "isIssue", TRUE) ]

(***************************************************************************)
(* main.ts: the plugin's state                                             *)
(***************************************************************************)
VARIABLES
  selection,            \* figma.currentPage.selection (host state)
  storage,              \* figma.clientStorage
  selectedLibraryId,    \* NoText for null
  libraryMap,
  styleExceptions,
  excludeLockedLayers,
  excludeHiddenLayers,
  checkFills, checkStrokes, checkTexts, checkRadius, checkGaps, checkPadding,
  currentIssues,
  radiusAuditLog,       \* radiusAuditLog.entries
  pending,              \* handlers suspended at an await of a clientStorage promise
  emitted,              \* the messages the last step sent to the UI
  lastOp,               \* history: the last step taken
  scan,                 \* history: the most recent scanForIssues() call
  prev,                 \* history: the scanForIssues() call before it
  requests,             \* history: the number of requests handled
  probe,                \* a node handed to the rules of utils/lint.ts on its own
  verdict               \* what the rules, the provenance check and the aggregator returned for it

settingsVars == <<selectedLibraryId, libraryMap, styleExceptions, excludeLockedLayers,
                  excludeHiddenLayers, checkFills, checkStrokes, checkTexts, checkRadius,
                  checkGaps, checkPadding>>

checkVars == <<checkFills, checkStrokes, checkTexts, checkRadius, checkGaps, checkPadding>>

vars == <<selection, storage, selectedLibraryId, libraryMap, styleExceptions,
          excludeLockedLayers, excludeHiddenLayers, checkFills, checkStrokes, checkTexts,
          checkRadius, checkGaps, checkPadding, currentIssues, radiusAuditLog, pending,
          emitted, lastOp, scan, prev, requests, probe, verdict>>

ruleVars == <<probe, verdict>>

\* Bounds of the model
MaxRequests == 2

\* const DEFAULT_EXCEPTIONS = 'Retail UI/*'
DEFAULT_EXCEPTIONS == <<"R","e","t","a","i","l"," ","U","I","/","*">>

\* The exception strings the settings view sends, or a previous session saved
ExceptionInputs == { DEFAULT_EXCEPTIONS, <<" ","g","h","o","s","t"," ",","," ",",","V","a","u","*">> }

\* The selections the user makes on the canvas
SelectionInputs ==
  { <<>>, <<"card", "vault">>, <<"bulk">>, <<"grid">>,
    <<"card", "banner", "vault", "button", "master", "group">> }

LibraryInputs == { LibA, LibB }

\* The frame limit of a manual scan, and the nested-frame cap
MaxSelection == 5
MaxFrames == 5000

(***************************************************************************)
(* main.ts: isExceptionStyle, isLintableNode, scanForIssues                *)
(***************************************************************************)
isExceptionStyle(nodeName) ==
  IF Len(styleExceptions) = 0 THEN FALSE
  ELSE IF Trim(nodeName) = <<>> THEN FALSE
  ELSE \E i \in 1..Len(styleExceptions) : ExceptionMatches(nodeName, styleExceptions[i])

isLintableNode(node) ==
     IF node.type = "PAGE" \/ node.type = "DOCUMENT" THEN FALSE
     ELSE IF excludeLockedLayers /\ node.locked THEN FALSE
     ELSE IF excludeHiddenLayers /\ ~node.visible THEN FALSE
     ELSE \/ node.type = "TEXT"
          \/ node.hasFills
          \/ node.hasStrokes
          \/ node.hasCornerRadius
          \/ (node.hasLayout /\ node.layoutMode # "NONE")

\* The switch of the filter over the issues checkDetachedStyles returned
shouldInclude(issue) ==
  CASE issue.type = "fill" -> checkFills
    [] issue.type = "stroke" -> checkStrokes
    [] issue.type = "text" -> checkTexts
    [] issue.type = "radius" -> checkRadius
    [] issue.type = "gap" -> checkGaps
    [] issue.type = "padding" -> checkPadding
    [] OTHER -> TRUE

RECURSIVE FilterIncluded(_)
FilterIncluded(issues) ==
  IF issues = <<>> THEN <<>>
  ELSE (IF shouldInclude(Head(issues)) THEN <<Head(issues)>> ELSE <<>>) \o
       FilterIncluded(Tail(issues))

\* The filter over parentNode.children before the recursion
RECURSIVE FilterChildren(_)
FilterChildren(children) ==
  IF children = <<>> THEN <<>>
  ELSE LET child == Nodes[Head(children)]
       IN (IF excludeLockedLayers /\ child.locked THEN <<>>
           ELSE IF excludeHiddenLayers /\ ~child.visible THEN <<>>
           ELSE <<Head(children)>>) \o FilterChildren(Tail(children))

NoWalk == [issues |-> <<>>, audit |-> <<>>, evaluated |-> <<>>, sourced |-> <<>>, nodeCount |-> 0]

\* A variant of the accumulation that puts what comes later in front
MergeLaterFirst(a, b) ==
  [ issues |-> b.issues \o a.issues, audit |-> b.audit \o a.audit,
    evaluated |-> b.evaluated \o a.evaluated, sourced |-> b.sourced \o a.sourced,
    nodeCount |-> a.nodeCount + b.nodeCount ]

Merge(a, b) ==
  [ issues |-> a.issues \o b.issues, audit |-> a.audit \o b.audit,
    evaluated |-> a.evaluated \o b.evaluated, sourced |-> a.sourced \o b.sourced,
    nodeCount |-> a.nodeCount + b.nodeCount ]

\* traverse(node) and nodes.forEach(traverse): the issues pushed, the audit entries
\* appended, the nodes passed to checkDetachedStyles (evaluated) and to
\* checkLibrarySources (sourced), and nodeCount.  A run of rep leaves is visited rep
\* times and is listed once in evaluated / sourced.
RECURSIVE traverse(_), traverseAll(_)
traverse(id) ==
  LET node == Nodes[id]
      lintable == isLintableNode(node)
      detached == checkDetachedStyles(node)
      library == IF selectedLibraryId # NoText
                 THEN checkLibrarySources(node, selectedLibraryId, libraryMap, styleExceptions)
                 ELSE <<>>
      own == IF lintable
             THEN [ issues |-> FilterIncluded(detached.issues) \o library,
                    audit |-> detached.audit,
                    evaluated |-> <<id>>,
                    sourced |-> IF selectedLibraryId # NoText THEN <<id>> ELSE <<>>,
                    nodeCount |-> node.rep ]
             ELSE [NoWalk EXCEPT !.nodeCount = node.rep]
  IN Merge(own, traverseAll(FilterChildren(node.children)))

traverseAll(ids) ==
  IF ids = <<>> THEN NoWalk
  ELSE Merge(traverse(Head(ids)), traverseAll(Tail(ids)))

\* The nodes scanForIssues walks
ScanRoots == IF Len(selection) > 0 THEN selection ELSE PageChildren

scanForIssues == traverseAll(ScanRoots)

\* countFrames of the SCAN_AGAIN handler
RECURSIVE countFrames(_), countFramesAll(_)
countFrames(id) ==
  IF Nodes[id].type \in {"FRAME", "COMPONENT", "INSTANCE"}
  THEN Nodes[id].rep + countFramesAll(Nodes[id].children)
  ELSE 0

countFramesAll(ids) ==
  IF ids = <<>> THEN 0 ELSE countFrames(Head(ids)) + countFramesAll(Tail(ids))

(***************************************************************************)
(* main.ts: the message handlers                                           *)
(***************************************************************************)
Checks ==
  [ fill |-> checkFills, stroke |-> checkStrokes, text |-> checkTexts,
    radius |-> checkRadius, gap |-> checkGaps, padding |-> checkPadding ]

\* What a scan reads: the selection and the settings
Inputs ==
  [ selection |-> selection, selectedLibraryId |-> selectedLibraryId,
    libraryMap |-> libraryMap, styleExceptions |-> styleExceptions,
    excludeLockedLayers |-> excludeLockedLayers,
    excludeHiddenLayers |-> excludeHiddenLayers, checks |-> Checks ]

NoInputs ==
  [ selection |-> <<>>, selectedLibraryId |-> NoText, libraryMap |-> <<>>,
    styleExceptions |-> <<>>, excludeLockedLayers |-> TRUE, excludeHiddenLayers |-> TRUE,
    checks |-> [ fill |-> TRUE, stroke |-> TRUE, text |-> TRUE,
                 radius |-> TRUE, gap |-> TRUE, padding |-> TRUE ] ]

NoScan ==
  [ count |-> 0, trigger |-> "none", inputs |-> NoInputs, roots |-> <<>>,
    issues |-> <<>>, audit |-> <<>>, logAfter |-> <<>>, evaluated |-> <<>>,
    sourced |-> <<>>, nodeCount |-> 0 ]

Msg(type, payload) == [type |-> type, payload |-> payload]

Op(op, scanned) == [op |-> op, scanned |-> scanned]

\* One call of scanForIssues(), recorded in the history
RunScan(trigger, walk) ==
  /\ radiusAuditLog' = radiusAuditLog \o walk.audit
  /\ prev' = scan
  /\ scan' = [ count |-> scan.count + 1, trigger |-> trigger, inputs |-> Inputs,
               roots |-> ScanRoots, issues |-> walk.issues, audit |-> walk.audit,
               logAfter |-> radiusAuditLog \o walk.audit,
               evaluated |-> walk.evaluated, sourced |-> walk.sourced,
               nodeCount |-> walk.nodeCount ]

NoScanRun == UNCHANGED <<radiusAuditLog, prev, scan>>

Handled == requests' = requests + 1

\* The module-level initial values of main.ts and utils/lint.ts
Start ==
  /\ selection = <<>>
  /\ storage = [ excludeLockedLayers |-> "unset", excludeHiddenLayers |-> "unset",
                 styleExceptions |-> NoText ]
  /\ selectedLibraryId = NoText
  /\ libraryMap = <<>>
  /\ styleExceptions = <<>>
  /\ excludeLockedLayers = TRUE
  /\ excludeHiddenLayers = TRUE
  /\ checkFills = TRUE /\ checkStrokes = TRUE /\ checkTexts = TRUE
  /\ checkRadius = TRUE /\ checkGaps = TRUE /\ checkPadding = TRUE
  /\ currentIssues = <<>>
  /\ radiusAuditLog = <<>>
  /\ pending = <<>>
  /\ emitted = <<>>
  /\ lastOp = [op |-> "init", scanned |-> FALSE]
  /\ scan = NoScan
  /\ prev = NoScan
  /\ requests = 0

NoVerdict == [stage |-> "none"]

Init ==
  /\ Start
  /\ probe = Blank
  /\ verdict = NoVerdict

\* The user changes the selection on the canvas: figma.on('selectionchange')
SelectionChange(sel) ==
  /\ requests < MaxRequests
  /\ sel # selection
  /\ selection' = sel
  /\ emitted' = <<Msg("SELECTION_CHANGE",
                      [isValid |-> Len(sel) > 0 /\ Len(sel) <= 10, count |-> Len(sel)])>>
  /\ lastOp' = Op("selectionchange", FALSE)
  /\ Handled
  /\ NoScanRun
  /\ UNCHANGED <<ruleVars, storage, settingsVars, currentIssues, pending>>

\* on('SCAN_AGAIN')
ScanAgain ==
  /\ requests < MaxRequests
  /\ Handled
  /\ UNCHANGED <<ruleVars, selection, storage, settingsVars, currentIssues, pending>>
  /\ IF Len(selection) = 0
     THEN /\ emitted' = <<Msg("UPDATE_ISSUES", <<>>),
                          Msg("SELECTION_ERROR", "Please select 1-5 frames to lint")>>
          /\ lastOp' = Op("SCAN_AGAIN", FALSE)
          /\ NoScanRun
     ELSE IF Len(selection) > MaxSelection
     THEN /\ emitted' = <<Msg("UPDATE_ISSUES", <<>>),
                          Msg("SELECTION_ERROR", "Please select no more than 5 frames")>>
          /\ lastOp' = Op("SCAN_AGAIN", FALSE)
          /\ NoScanRun
     ELSE IF countFramesAll(selection) > MaxFrames
     THEN /\ emitted' = <<Msg("UPDATE_ISSUES", <<>>),
                          Msg("SELECTION_ERROR", "Too many frames detected")>>
          /\ lastOp' = Op("SCAN_AGAIN", FALSE)
          /\ NoScanRun
     ELSE LET walk == scanForIssues
          IN /\ RunScan("SCAN_AGAIN", walk)
             /\ emitted' = <<Msg("UPDATE_ISSUES", walk.issues)>>
             /\ lastOp' = Op("SCAN_AGAIN", TRUE)

\* on('GET_LIBRARIES'): getAvailableLibraries() rebuilds the library map
GetLibraries ==
  /\ requests < MaxRequests
  /\ Handled
  /\ libraryMap' = HostLibraries
  /\ emitted' = <<Msg("UPDATE_LIBRARIES", HostLibraries)>>
  /\ lastOp' = Op("GET_LIBRARIES", FALSE)
  /\ NoScanRun
  /\ UNCHANGED <<ruleVars, selection, storage, selectedLibraryId, styleExceptions, excludeLockedLayers,
                 excludeHiddenLayers, checkVars, currentIssues, pending>>

\* on('UPDATE_EXCEPTIONS'); the write to client storage succeeds or fails
UpdateExceptions(exceptionsString) ==
  /\ requests < MaxRequests
  /\ Handled
  /\ styleExceptions' = ParseExceptions(exceptionsString)
  /\ \/ storage' = [storage EXCEPT !.styleExceptions = exceptionsString]
     \/ storage' = storage
  /\ emitted' = <<>>
  /\ lastOp' = Op("UPDATE_EXCEPTIONS", FALSE)
  /\ NoScanRun
  /\ UNCHANGED <<ruleVars, selection, selectedLibraryId, libraryMap, excludeLockedLayers,
                 excludeHiddenLayers, checkVars, currentIssues, pending>>

\* on('SAVE_SELECTED_LIBRARY')
SaveSelectedLibrary(libraryId) ==
  /\ requests < MaxRequests
  /\ Handled
  /\ selectedLibraryId' = libraryId
  /\ emitted' = <<>>
  /\ lastOp' = Op("SAVE_SELECTED_LIBRARY", FALSE)
  /\ NoScanRun
  /\ UNCHANGED <<ruleVars, selection, storage, libraryMap, styleExceptions, excludeLockedLayers,
                 excludeHiddenLayers, checkVars, currentIssues, pending>>

\* Array.prototype.splice(i - 1, 1)
RemoveAt(seq, i) == SubSeq(seq, 1, i - 1) \o SubSeq(seq, i + 1, Len(seq))

\* on('UPDATE_ISSUE_TYPE_CHECKS'), up to its first await: the settings view sends one
\* key (a category, or "wrongLibrary", which the handler ignores) and its new value
UpdateIssueTypeChecks(type, value) ==
  /\ requests < MaxRequests
  /\ Handled
  /\ checkFills' = IF type = "fill" THEN value ELSE checkFills
  /\ checkStrokes' = IF type = "stroke" THEN value ELSE checkStrokes
  /\ checkTexts' = IF type = "text" THEN value ELSE checkTexts
  /\ checkRadius' = IF type = "radius" THEN value ELSE checkRadius
  /\ checkGaps' = IF type = "gap" THEN value ELSE checkGaps
  /\ checkPadding' = IF type = "padding" THEN value ELSE checkPadding
  /\ pending' = Append(pending, [op |-> "UPDATE_ISSUE_TYPE_CHECKS", arg |-> FALSE])
  /\ emitted' = <<>>
  /\ lastOp' = Op("UPDATE_ISSUE_TYPE_CHECKS", FALSE)
  /\ NoScanRun
  /\ UNCHANGED <<ruleVars, selection, storage, selectedLibraryId, libraryMap, styleExceptions,
                 excludeLockedLayers, excludeHiddenLayers, currentIssues>>

\* on('UPDATE_EXCLUDE_LOCKED'), up to its await
UpdateExcludeLocked(newExcludeLocked) ==
  /\ requests < MaxRequests
  /\ Handled
  /\ excludeLockedLayers' = newExcludeLocked
  /\ pending' = Append(pending, [op |-> "UPDATE_EXCLUDE_LOCKED", arg |-> newExcludeLocked])
  /\ emitted' = <<>>
  /\ lastOp' = Op("UPDATE_EXCLUDE_LOCKED", FALSE)
  /\ NoScanRun
  /\ UNCHANGED <<ruleVars, selection, storage, selectedLibraryId, libraryMap, styleExceptions,
                 excludeHiddenLayers, checkVars, currentIssues>>

\* on('UPDATE_EXCLUDE_HIDDEN'), up to its await
UpdateExcludeHidden(newExcludeHidden) ==
  /\ requests < MaxRequests
  /\ Handled
  /\ excludeHiddenLayers' = newExcludeHidden
  /\ pending' = Append(pending, [op |-> "UPDATE_EXCLUDE_HIDDEN", arg |-> newExcludeHidden])
  /\ emitted' = <<>>
  /\ lastOp' = Op("UPDATE_EXCLUDE_HIDDEN", FALSE)
  /\ NoScanRun
  /\ UNCHANGED <<ruleVars, selection, storage, selectedLibraryId, libraryMap, styleExceptions,
                 excludeLockedLayers, checkVars, currentIssues>>

\* The rest of the three update handlers once the storage write has resolved:
\* emit SETTINGS_UPDATING, rescan, store the issues for reports, emit UPDATE_ISSUES
SettingsSaved(i) ==
  LET p == pending[i]
      walk == scanForIssues
  IN /\ pending' = RemoveAt(pending, i)
     /\ storage' = IF p.op = "UPDATE_EXCLUDE_LOCKED"
                   THEN [storage EXCEPT !.excludeLockedLayers = BoolText(p.arg)]
                   ELSE IF p.op = "UPDATE_EXCLUDE_HIDDEN"
                   THEN [storage EXCEPT !.excludeHiddenLayers = BoolText(p.arg)]
                   ELSE storage
     /\ RunScan(p.op, walk)
     /\ currentIssues' = walk.issues
     /\ emitted' = <<Msg("SETTINGS_UPDATING", <<>>), Msg("UPDATE_ISSUES", walk.issues)>>
     /\ lastOp' = Op(p.op, TRUE)
     /\ UNCHANGED <<ruleVars, selection, settingsVars, requests>>

\* The catch block of the three update handlers: the storage write was rejected
SettingsSaveFailed(i) ==
  /\ pending' = RemoveAt(pending, i)
  /\ emitted' = <<>>
  /\ lastOp' = Op(pending[i].op, FALSE)
  /\ NoScanRun
  /\ UNCHANGED <<ruleVars, selection, storage, settingsVars, currentIssues, requests>>

\* on('GENERATE_REPORT')
GenerateReport ==
  /\ requests < MaxRequests
  /\ Handled
  /\ emitted' = <<Msg("REPORT_GENERATED",
                      generateLintReport(currentIssues, Inputs, radiusAuditLog))>>
  /\ lastOp' = Op("GENERATE_REPORT", FALSE)
  /\ NoScanRun
  /\ UNCHANGED <<ruleVars, selection, storage, settingsVars, currentIssues, pending>>

\* The settings view's checkboxes send the negation of the value they show
CheckInputs == Categories \cup {"wrongLibrary"}

Next ==
  \/ \E sel \in SelectionInputs : SelectionChange(sel)
  \/ ScanAgain
  \/ GetLibraries
  \/ \E e \in ExceptionInputs : UpdateExceptions(e)
  \/ \E l \in LibraryInputs : SaveSelectedLibrary(l)
  \/ \E t \in CheckInputs, v \in BOOLEAN : UpdateIssueTypeChecks(t, v)
  \/ \E v \in BOOLEAN : UpdateExcludeLocked(v)
  \/ \E v \in BOOLEAN : UpdateExcludeHidden(v)
  \/ \E i \in 1..Len(pending) : SettingsSaved(i)
  \/ \E i \in 1..Len(pending) : SettingsSaveFailed(i)
  \/ GenerateReport

Spec == Init /\ [][Next]_vars

\* A promise of clientStorage.setAsync settles, rejected or resolved, and the handler
\* suspended at it runs to its end
Settled == \E i \in 1..Len(pending) : SettingsSaveFailed(i) \/ SettingsSaved(i)

\* The handlers, with every suspended handler resumed at some time
LiveSpec == Init /\ [][Next]_vars /\ WF_vars(Settled)

\* The plugin started with a reference library saved by an earlier session and no
\* saved exceptions: loadSelectedLibrary() and loadExceptions() have completed
ReportInit ==
  /\ selection = <<>>
  /\ storage = [ excludeLockedLayers |-> "unset", excludeHiddenLayers |-> "unset",
                 styleExceptions |-> NoText ]
  /\ selectedLibraryId \in LibraryInputs
  /\ libraryMap = <<>>
  /\ styleExceptions = ParseExceptions(DEFAULT_EXCEPTIONS)
  /\ excludeLockedLayers = TRUE
  /\ excludeHiddenLayers = TRUE
  /\ checkFills = TRUE /\ checkStrokes = TRUE /\ checkTexts = TRUE
  /\ checkRadius = TRUE /\ checkGaps = TRUE /\ checkPadding = TRUE
  /\ currentIssues = <<>>
  /\ radiusAuditLog = <<>>
  /\ pending = <<>>
  /\ emitted = <<>>
  /\ lastOp = [op |-> "init", scanned |-> FALSE]
  /\ scan = NoScan
  /\ prev = NoScan
  /\ requests = 0
  /\ probe = Blank
  /\ verdict = NoVerdict

ReportSpec == ReportInit /\ [][Next]_vars

(***************************************************************************)
(* main.ts: the exclude settings read back from client storage             *)
(***************************************************************************)
\* The handlers suspended at clientStorage.setAsync, and those at getAsync
UpdateOps == {"UPDATE_ISSUE_TYPE_CHECKS", "UPDATE_EXCLUDE_LOCKED", "UPDATE_EXCLUDE_HIDDEN"}

LockedReads == {"loadExcludeLockedSetting", "GET_EXCLUDE_LOCKED"}

\* on('GET_EXCLUDE_LOCKED'), up to its await
GetExcludeLocked ==
  /\ requests < MaxRequests
  /\ Handled
  /\ pending' = Append(pending, [op |-> "GET_EXCLUDE_LOCKED", arg |-> FALSE])
  /\ emitted' = <<>>
  /\ lastOp' = Op("GET_EXCLUDE_LOCKED", FALSE)
  /\ NoScanRun
  /\ UNCHANGED <<ruleVars, selection, storage, settingsVars, currentIssues>>

\* on('GET_EXCLUDE_HIDDEN'), up to its await
GetExcludeHidden ==
  /\ requests < MaxRequests
  /\ Handled
  /\ pending' = Append(pending, [op |-> "GET_EXCLUDE_HIDDEN", arg |-> FALSE])
  /\ emitted' = <<>>
  /\ lastOp' = Op("GET_EXCLUDE_HIDDEN", FALSE)
  /\ NoScanRun
  /\ UNCHANGED <<ruleVars, selection, storage, settingsVars, currentIssues>>

\* getAsync has resolved with what the storage holds: the rest of the two GET
\* handlers (saved value or true, then EXCLUDE_*_LOADED) and of the two start-up
\* loaders (saved value, or the flag left alone)
SettingLoaded(i) ==
  LET p == pending[i]
      locked == p.op \in LockedReads
      isGet == p.op \in {"GET_EXCLUDE_LOCKED", "GET_EXCLUDE_HIDDEN"}
      saved == IF locked THEN storage.excludeLockedLayers ELSE storage.excludeHiddenLayers
      current == IF locked THEN excludeLockedLayers ELSE excludeHiddenLayers
      value == IF saved # "unset" THEN saved = "true"
               ELSE IF isGet THEN TRUE ELSE current
  IN /\ pending' = RemoveAt(pending, i)
     /\ excludeLockedLayers' = IF locked THEN value ELSE excludeLockedLayers
     /\ excludeHiddenLayers' = IF locked THEN excludeHiddenLayers ELSE value
     /\ emitted' = IF isGet
                   THEN <<Msg(IF locked THEN "EXCLUDE_LOCKED_LOADED"
                              ELSE "EXCLUDE_HIDDEN_LOADED", value)>>
                   ELSE <<>>
     /\ lastOp' = Op(p.op, FALSE)
     /\ NoScanRun
     /\ UNCHANGED <<ruleVars, selection, storage, selectedLibraryId, libraryMap,
                    styleExceptions, checkVars, currentIssues, requests>>

\* getAsync was rejected: the GET handlers answer true without assigning, the
\* loaders keep the default
SettingLoadFailed(i) ==
  LET p == pending[i]
  IN /\ pending' = RemoveAt(pending, i)
     /\ emitted' = IF p.op = "GET_EXCLUDE_LOCKED" THEN <<Msg("EXCLUDE_LOCKED_LOADED", TRUE)>>
                   ELSE IF p.op = "GET_EXCLUDE_HIDDEN" THEN <<Msg("EXCLUDE_HIDDEN_LOADED", TRUE)>>
                   ELSE <<>>
     /\ lastOp' = Op(p.op, FALSE)
     /\ NoScanRun
     /\ UNCHANGED <<ruleVars, selection, storage, settingsVars, currentIssues, requests>>

\* The plugin's default export has returned: loadExcludeLockedSetting() and
\* loadExcludeHiddenSetting() are suspended at their getAsync, and the storage holds
\* what an earlier session saved
SettingsInit ==
  /\ selection = <<>>
  /\ storage \in [ excludeLockedLayers : {"unset", "true", "false"},
                   excludeHiddenLayers : {"unset", "true", "false"},
                   styleExceptions : {NoText} ]
  /\ selectedLibraryId = NoText
  /\ libraryMap = <<>>
  /\ styleExceptions = <<>>
  /\ excludeLockedLayers = TRUE
  /\ excludeHiddenLayers = TRUE
  /\ checkFills = TRUE /\ checkStrokes = TRUE /\ checkTexts = TRUE
  /\ checkRadius = TRUE /\ checkGaps = TRUE /\ checkPadding = TRUE
  /\ currentIssues = <<>>
  /\ radiusAuditLog = <<>>
  /\ pending = << [op |-> "loadExcludeLockedSetting", arg |-> FALSE],
                  [op |-> "loadExcludeHiddenSetting", arg |-> FALSE] >>
  /\ emitted = <<>>
  /\ lastOp = [op |-> "init", scanned |-> FALSE]
  /\ scan = NoScan
  /\ prev = NoScan
  /\ requests = 0
  /\ probe = Blank
  /\ verdict = NoVerdict

\* The user changes a toggle once the previous change has been answered
NoUpdatePending == \A i \in 1..Len(pending) : pending[i].op \notin UpdateOps

SettingsNext ==
  \/ \E v \in BOOLEAN : NoUpdatePending /\ UpdateExcludeLocked(v)
  \/ \E v \in BOOLEAN : NoUpdatePending /\ UpdateExcludeHidden(v)
  \/ GetExcludeLocked
  \/ GetExcludeHidden
  \/ \E i \in 1..Len(pending) : pending[i].op \in UpdateOps /\ SettingsSaved(i)
  \/ \E i \in 1..Len(pending) : pending[i].op \in UpdateOps /\ SettingsSaveFailed(i)
  \/ \E i \in 1..Len(pending) : pending[i].op \notin UpdateOps /\ SettingLoaded(i)
  \/ \E i \in 1..Len(pending) : pending[i].op \notin UpdateOps /\ SettingLoadFailed(i)

SettingsSpec == SettingsInit /\ [][SettingsNext]_vars

(***************************************************************************)
(* components/ErrorDisplay.tsx: the deduplication of the issue list        *)
(***************************************************************************)
\* A variant of the key that leaves out details and message
NodeTypeKey(issue) == issue.nodeId \o "-" \o issue.type

\* The key of the reduce over the issues
DedupKey(issue) ==
  IF issue.type = "radius"
  THEN issue.nodeId \o "-" \o issue.type \o "-" \o issue.details \o "-" \o issue.message
  ELSE issue.nodeId \o "-" \o issue.type \o
       (IF issue.details # "" THEN "-" \o issue.details ELSE "")

\* Object.values of the accumulator: the first issue of each key, in insertion order
RECURSIVE Deduplicate(_, _)
Deduplicate(issues, keys) ==
  IF issues = <<>> THEN <<>>
  ELSE IF DedupKey(Head(issues)) \in keys
       THEN Deduplicate(Tail(issues), keys)
       ELSE <<Head(issues)>> \o
            Deduplicate(Tail(issues), keys \cup {DedupKey(Head(issues))})

allUniqueIssues(issues) == Deduplicate(issues, {})

(***************************************************************************)
(* utils/lint.ts applied to one node: the inputs of checkDetachedStyles    *)
(* and checkLibrarySources drawn from bounded sets                         *)
(***************************************************************************)
\* The four corner values (topLeft, topRight, bottomLeft, bottomRight) tried
CornerInputs == { <<0, 0, 0, 0>>, <<8, 8, 8, 8>>, <<8, 8, 0, 8>>, <<0, 4, 0, 0>> }

\* The sets of radius properties that carry a variable
RadiusBindingInputs ==
  { {}, {"cornerRadius"}, {"topLeftRadius"},
    {"topLeftRadius", "topRightRadius", "bottomRightRadius"},
    {"topLeftRadius", "topRightRadius", "bottomLeftRadius", "bottomRightRadius"} }

\* The sets of auto-layout properties that carry a variable
LayoutBindingInputs ==
  { {}, {"itemSpacing"}, {"paddingLeft", "paddingRight"}, {"paddingTop"},
    {"paddingLeft", "paddingRight", "paddingTop", "paddingBottom"} }

PaddingInputs == {0, 8}

\* boundVariables objects for the provenance check; the last has a binding without id
SourceBindingInputs ==
  { NoBindings,
    ("fills" :> Alias("varLocal")),
    ("cornerRadius" :> Alias("varRadiusA")),
    ("itemSpacing" :> Alias("varGapA")) @@ ("paddingLeft" :> Alias("varRadiusB")),
    ("strokeWeight" :> [type |-> "VARIABLE_ALIAS"]) }

Bound(properties, varId) == [p \in properties |-> Alias(varId)]

\* The aggregate cornerRadius of a node without individual corners
AggregateRadius(corners) ==
  IF corners[1] = corners[2] /\ corners[2] = corners[3] /\ corners[3] = corners[4]
  THEN corners[1] ELSE Mixed

Shaped(type, corners) ==
  IF type = "ELLIPSE" THEN RoundLike(type, NameDot, AggregateRadius(corners))
  ELSE IF type = "RECTANGLE"
       THEN RectLike(NameChip, corners[1], corners[2], corners[3], corners[4])
       ELSE FrameLike(type, NameCard, corners[1], corners[2], corners[3], corners[4])

\* Nodes that differ in what the corner-radius rule reads
RadiusProbes ==
  { [ Shaped(type, corners) EXCEPT
        !.id = "probe", !.fills = <<"SOLID">>,
        !.boundVariables = Bound(bound, "varRadiusA"),
        !.effectStyleId = effect, !.mainComponent = main,
        !.locked = locked, !.visible = visible ] :
      type \in {"FRAME", "INSTANCE", "RECTANGLE", "ELLIPSE"},
      corners \in CornerInputs, bound \in RadiusBindingInputs,
      effect \in {NoText, StyleEffectA}, main \in {"none", "master"},
      locked \in BOOLEAN, visible \in BOOLEAN }

\* Frames that differ in what the gap and padding rules read
LayoutProbes ==
  { [ FrameLike("FRAME", NameCard, 0, 0, 0, 0) EXCEPT
        !.id = "probe", !.layoutMode = mode, !.itemSpacing = spacing,
        !.primaryAxisAlignItems = align,
        !.paddingLeft = pad[1], !.paddingRight = pad[2],
        !.paddingTop = pad[3], !.paddingBottom = pad[4],
        !.boundVariables = Bound(bound, "varGapA") ] :
      mode \in {"NONE", "HORIZONTAL", "VERTICAL"}, spacing \in {0, 16},
      align \in {"MIN", "SPACE_BETWEEN"},
      pad \in PaddingInputs \X PaddingInputs \X PaddingInputs \X PaddingInputs,
      bound \in LayoutBindingInputs }

\* Nodes that differ in the styles and variables the provenance check resolves
SourceProbes ==
  { [ Shaped("RECTANGLE", <<0, 0, 0, 0>>) EXCEPT
        !.id = "probe", !.type = type, !.name = name, !.fills = <<"SOLID">>,
        !.fillStyleId = fillStyle, !.strokeStyleId = strokeStyle,
        !.effectStyleId = effect, !.textStyleId = textStyle,
        !.boundVariables = bound ] :
      type \in {"RECTANGLE", "TEXT"}, name \in {NameChip, NameBanner},
      fillStyle \in {NoText, StyleFillA, StyleFillB, StyleTextLocal},
      strokeStyle \in {NoText, StyleFillA}, effect \in {NoText, StyleEffectA},
      textStyle \in {NoText, StyleTextLocal}, bound \in SourceBindingInputs }

\* Nodes of which a property read throws in one of the blocks
FailingProbes ==
  { [ Shaped(type, <<0, 0, 0, 0>>) EXCEPT
        !.id = "probe", !.fills = <<"SOLID">>, !.strokes = strokes,
        !.fillStyleId = fillStyle, !.raises = Blocks[b] ] :
      type \in {"RECTANGLE", "ELLIPSE"}, strokes \in {<<>>, <<"SOLID">>},
      fillStyle \in {NoText, StyleFillA}, b \in 1..Len(Blocks) }

ProbeNodes == RadiusProbes \cup LayoutProbes \cup SourceProbes \cup FailingProbes

\* libraryMap as GET_LIBRARIES leaves it, or still empty
LibraryMapInputs == { <<>>, HostLibraries }

RuleInit ==
  /\ Start
  /\ probe \in ProbeNodes
  /\ verdict = NoVerdict

\* checkDetachedStyles(probe), with what its radius, gap and padding blocks return
Evaluate ==
  /\ verdict.stage = "none"
  /\ verdict' = [ stage |-> "detached",
                  detached |-> checkDetachedStyles(probe),
                  facts |-> RadiusFacts(probe),
                  radius |-> RadiusBlock(probe, RadiusFacts(probe)),
                  gap |-> CheckGap(probe),
                  padding |-> CheckPadding(probe) ]
  /\ UNCHANGED <<probe, selection, storage, settingsVars, currentIssues, radiusAuditLog,
                 pending, emitted, lastOp, scan, prev, requests>>

\* checkLibrarySources(probe, selectedLibraryId, libraryMap, styleExceptions)
CheckSources(libraryId, map, exceptions) ==
  /\ verdict.stage = "detached"
  /\ verdict' = [ stage |-> "sourced",
                  detached |-> verdict.detached,
                  selectedLibraryId |-> libraryId, libraryMap |-> map,
                  exceptions |-> exceptions,
                  library |-> checkLibrarySources(probe, libraryId, map, exceptions) ]
  /\ UNCHANGED <<probe, selection, storage, settingsVars, currentIssues, radiusAuditLog,
                 pending, emitted, lastOp, scan, prev, requests>>

RuleNext ==
  \/ Evaluate
  \/ \E l \in LibraryInputs, m \in LibraryMapInputs, e \in ExceptionInputs :
        CheckSources(l, m, ParseExceptions(e))

RuleSpec == RuleInit /\ [][RuleNext]_vars

(***************************************************************************)
(* components/ErrorDisplay.tsx applied to a raw issue list drawn from a    *)
(* bounded set                                                             *)
(***************************************************************************)
MaxRaw == 3

\* The issues a raw list is made of: two layers, repeated and distinct details,
\* and the two messages an issue of one category can carry
IssueInputs ==
  { createRadiusIssue(Nodes["card"], "uniform"),
    createWrongLibraryIssue(Nodes["card"], "radius", LibA, "Unknown library"),
    [createWrongLibraryIssue(Nodes["card"], "radius", LibA, "Unknown library")
       EXCEPT !.details = "uniform"],
    createFillIssue(Nodes["card"]),
    createWrongLibraryIssue(Nodes["card"], "fill", LibA, "Unknown library"),
    createPaddingIssue(Nodes["card"], "all"),
    createPaddingIssue(Nodes["card"], "horizontal"),
    createFillIssue(Nodes["dot"]) }

\* The issues prop of ErrorDisplay
RawIssueInputs == UNION { [1..n -> IssueInputs] : n \in 0..MaxRaw }

DisplayInit ==
  /\ Start
  /\ probe = Blank
  /\ verdict \in [stage : {"raw"}, issues : RawIssueInputs]

\* ErrorDisplay renders: the deduplicated list and the counts by type
Display ==
  /\ verdict.stage = "raw"
  /\ verdict' = [ stage |-> "displayed",
                  issues |-> verdict.issues,
                  unique |-> allUniqueIssues(verdict.issues),
                  counts |-> [c \in Categories |->
                                CountWhere(allUniqueIssues(verdict.issues), "type", c)] ]
  /\ UNCHANGED <<probe, selection, storage, settingsVars, currentIssues, radiusAuditLog,
                 pending, emitted, lastOp, scan, prev, requests>>

DisplaySpec == DisplayInit /\ [][Display]_vars

(***************************************************************************)
(* Properties                                                              *)
(***************************************************************************)
\* The last step completed a scan request: SCAN_AGAIN (which scans or rejects), or
\* the part of a settings update after its await (which scans)
RequestCompleted == lastOp.op = "SCAN_AGAIN" \/ lastOp.scanned

\* C1: the audit log is cleared at the start of every scan, so after any sequence of
\* scans it holds exactly the entries the most recent scan appended.
C1_AuditLogClearedByScan ==
  scan.count > 0 => radiusAuditLog = scan.audit

\* C2: the same scan run twice in a row, on an unchanged tree and unchanged settings,
\* leaves the same deduplicated issue set and the same audit log after the second run
\* as after the first.
C2_RescanIdempotent ==
  (prev.count > 0 /\ scan.inputs = prev.inputs) =>
     /\ allUniqueIssues(scan.issues) = allUniqueIssues(prev.issues)
     /\ scan.logAfter = prev.logAfter

\* C3: a scan's output holds no issue of a category whose flag was false when the scan
\* ran, whether the detachment rules or the provenance check produced the issue.
C3_DisabledCategoryNotReported ==
  \A i \in 1..Len(scan.issues) :
     scan.issues[i].type \in Categories => scan.inputs.checks[scan.issues[i].type]

\* C4: a scan reports no issue for a node whose name matches an exception pattern
\* that was active when the scan ran.
C4_ExceptedNodeHasNoIssue ==
  \A i \in 1..Len(scan.issues) :
     ~matchesExceptions(scan.issues[i].nodeName, scan.inputs.styleExceptions)

\* C5: after any scan, whichever request triggered it, the issue set held for report
\* generation is that scan's output.
C5_IssueSetReplacedByScan ==
  scan.count > 0 => currentIssues = scan.issues

\* C6: a scan request completed while zero nodes or more than MaxSelection nodes are
\* selected evaluates no node and answers with a selection error and an empty issue
\* set, whether it is a manual re-run or a settings change.
C6_InvalidSelectionRejected ==
  (RequestCompleted /\ (Len(selection) = 0 \/ Len(selection) > MaxSelection)) =>
     /\ ~lastOp.scanned
     /\ \E i \in 1..Len(emitted) : emitted[i].type = "SELECTION_ERROR"
     /\ \E i \in 1..Len(emitted) : emitted[i].type = "UPDATE_ISSUES"
     /\ \A i \in 1..Len(emitted) :
           emitted[i].type = "UPDATE_ISSUES" => emitted[i].payload = <<>>

\* C7: a scan request on a valid selection whose trees hold more than MaxFrames nodes
\* in total, counting every descendant of every kind, evaluates no node and answers
\* with the size-limit failure and no issues; with at most MaxFrames nodes the
\* size-limit failure is not raised.
C7_NodeCapOnTotalNodes ==
  LET RECURSIVE TotalNodes(_)
      TotalNodes(ids) ==
        IF ids = <<>> THEN 0
        ELSE Nodes[Head(ids)].rep + TotalNodes(Nodes[Head(ids)].children) +
             TotalNodes(Tail(ids))
      sizeLimitFailure ==
        emitted = <<Msg("UPDATE_ISSUES", <<>>),
                    Msg("SELECTION_ERROR", "Too many frames detected")>>
  IN (RequestCompleted /\ Len(selection) > 0 /\ Len(selection) <= MaxSelection) =>
        IF TotalNodes(selection) > MaxFrames
        THEN ~lastOp.scanned /\ sizeLimitFailure
        ELSE ~sizeLimitFailure

\* C8: a node that is locked while excludeLocked is true, or hidden while
\* excludeHidden is true, and every node of its subtree, is neither evaluated nor the
\* subject of an issue or an audit entry of the scan, be it a root or a descendant.
C8_ExcludedSubtreeSkipped ==
  LET RECURSIVE Subtree(_)
      Subtree(ids) ==
        IF ids = <<>> THEN {}
        ELSE {Head(ids)} \cup Subtree(Nodes[Head(ids)].children) \cup Subtree(Tail(ids))
      excluded(id) ==
        \/ scan.inputs.excludeLockedLayers /\ Nodes[id].locked
        \/ scan.inputs.excludeHiddenLayers /\ ~Nodes[id].visible
      skipped == UNION { Subtree(<<id>>) : id \in { n \in NodeIds : excluded(n) } }
  IN /\ \A i \in 1..Len(scan.evaluated) : scan.evaluated[i] \notin skipped
     /\ \A i \in 1..Len(scan.sourced) : scan.sourced[i] \notin skipped
     /\ \A i \in 1..Len(scan.issues) : scan.issues[i].nodeId \notin skipped
     /\ \A i \in 1..Len(scan.audit) : scan.audit[i].nodeId \notin skipped

\* C9: every node a scan passes to the detachment rules that has a corner-radius
\* property has exactly one entry in what the scan appended to the audit log.
C9_OneAuditEntryPerRadiusNode ==
  \A i \in 1..Len(scan.evaluated) :
     hasCornerRadius(Nodes[scan.evaluated[i]]) =>
        CountWhere(scan.audit, "nodeId", scan.evaluated[i]) = 1

\* C10: every node a scan passes to the detachment rules whose first fill is solid,
\* with no fill style and no variable on "fills", has exactly one fill issue with the
\* message "Fill not linked to a style or variable" when the fill category is on.
C10_SolidUnboundFillOneIssue ==
  \A i \in 1..Len(scan.evaluated) :
     LET node == Nodes[scan.evaluated[i]]
     IN (/\ scan.inputs.checks.fill
         /\ node.hasFills /\ Len(node.fills) > 0 /\ node.fills[1] = "SOLID"
         /\ node.fillStyleId = NoText
         /\ ~hasVariableBinding(node, "fills")) =>
           Len(SelectSeq(scan.issues,
                 LAMBDA x : /\ x.nodeId = node.id
                            /\ x.type = "fill"
                            /\ x.message = "Fill not linked to a style or variable")) = 1

\* The radius properties hasAnyRadiusBinding looks up in boundVariables
RadiusProperties ==
  { "cornerRadius", "cornerRadius.value", "cornerRadiusValue",
    "topLeftRadius", "topLeftRadius.value", "topRightRadius", "topRightRadius.value",
    "bottomLeftRadius", "bottomLeftRadius.value", "bottomRightRadius",
    "bottomRightRadius.value" }

\* The node has no radius-related binding of any kind: no variable on a radius
\* property, no effect style, and no main component with a radius variable
NoRadiusBinding ==
  /\ DOMAIN probe.boundVariables \cap RadiusProperties = {}
  /\ probe.effectStyleId = NoText
  /\ ~(/\ probe.type = "INSTANCE" /\ probe.mainComponent # "none"
       /\ DOMAIN Nodes[probe.mainComponent].boundVariables \cap RadiusProperties # {})

OffendingCorners ==
  LET bound(property) ==
        property \in DOMAIN probe.boundVariables \/
        (property \o ".value") \in DOMAIN probe.boundVariables
      offending(label, property, value) ==
        IF value > 0 /\ ~bound(property)
        THEN <<label \o ": " \o ToString(value)>> ELSE <<>>
  IN offending("topLeft", "topLeftRadius", probe.topLeftRadius) \o
     offending("topRight", "topRightRadius", probe.topRightRadius) \o
     offending("bottomLeft", "bottomLeftRadius", probe.bottomLeftRadius) \o
     offending("bottomRight", "bottomRightRadius", probe.bottomRightRadius)

\* The probe has four individual corner values that are not all equal
UnequalCorners ==
  /\ probe.hasCornerRadius /\ probe.hasIndividualCornerRadii
  /\ ~(/\ probe.topLeftRadius = probe.topRightRadius
       /\ probe.topRightRadius = probe.bottomLeftRadius
       /\ probe.bottomLeftRadius = probe.bottomRightRadius)

ActiveAutoLayout == probe.hasLayout /\ probe.layoutMode \in {"HORIZONTAL", "VERTICAL"}

SideAffected(first, second) ==
  \/ (probe[first] > 0 /\ first \notin DOMAIN probe.boundVariables)
  \/ (probe[second] > 0 /\ second \notin DOMAIN probe.boundVariables)

\* C14: with active auto-layout the padding rule emits at most one padding issue,
\* exactly when some side has padding > 0 and no variable on that side; its details
\* is "horizontal" when only left/right are affected, "vertical" when only
\* top/bottom are affected, and "all" when both axes are affected.
C14_OnePaddingIssue ==
  (verdict.stage = "detached" /\ ActiveAutoLayout) =>
     LET horizontal == SideAffected("paddingLeft", "paddingRight")
         vertical == SideAffected("paddingTop", "paddingBottom")
     IN /\ Len(verdict.padding) <= 1
        /\ Len(verdict.padding) = 1 <=> (horizontal \/ vertical)
        /\ Len(verdict.padding) = 1 =>
              /\ verdict.padding[1].type = "padding"
              /\ verdict.padding[1].nodeId = probe.id
              /\ (horizontal /\ ~vertical) => verdict.padding[1].details = "horizontal"
              /\ (~horizontal /\ vertical) => verdict.padding[1].details = "vertical"
              /\ (horizontal /\ vertical) => verdict.padding[1].details = "all"
        /\ (~probe.locked /\ probe.visible) =>
              CountWhere(verdict.detached.issues, "type", "padding") = Len(verdict.padding)

\* A vertical frame padded on all four sides with variables on left and right only
\* has been evaluated: one issue, for the vertical axis
C14_Witness ==
  /\ verdict.stage = "detached"
  /\ probe.layoutMode = "VERTICAL"
  /\ probe.paddingLeft = 8 /\ probe.paddingRight = 8
  /\ probe.paddingTop = 8 /\ probe.paddingBottom = 8
  /\ DOMAIN probe.boundVariables = {"paddingLeft", "paddingRight"}
  /\ Len(verdict.padding) = 1
  /\ verdict.padding[1].details = "vertical"

\* The library a published style of the document comes from
StyleLibrary ==
  (StyleFillA :> LibA) @@ (StyleFillB :> LibB) @@ (StyleEffectA :> LibA)

\* C15: a fill style of library A, a reference library B # A, and no exception
\* matching the style name or the node name: the provenance check yields exactly one
\* issue for that binding, with message "Wrong library/Color Fill", sourceLibraryId A
\* and sourceLibraryName from the library map, or "Unknown library" when A is not in it.
C15_WrongLibraryFillIssue ==
  (/\ verdict.stage = "sourced"
   /\ probe.hasFills /\ probe.fillStyleId \in DOMAIN StyleLibrary
   /\ StyleLibrary[probe.fillStyleId] # verdict.selectedLibraryId
   /\ ~matchesExceptions(StyleNames[probe.fillStyleId], verdict.exceptions)
   /\ ~NodeNameExcepted(probe, verdict.exceptions)) =>
     LET A == StyleLibrary[probe.fillStyleId]
     IN /\ Len(verdict.library) >= 1
        /\ verdict.library[1].nodeId = probe.id
        /\ verdict.library[1].type = "fill"
        /\ verdict.library[1].message = "Wrong library/Color Fill"
        /\ verdict.library[1].sourceLibraryId = A
        /\ verdict.library[1].sourceLibraryName =
              IF A \in DOMAIN verdict.libraryMap
              THEN verdict.libraryMap[A] ELSE "Unknown library"
        /\ (probe.effectStyleId = NoText /\ DOMAIN probe.boundVariables = {}) =>
              CountWhere(verdict.library, "type", "fill") = 1

\* A rectangle filled with a style of library B has been checked against library A
\* with the host's library list: the issue names "Design System"
C15_Witness ==
  /\ verdict.stage = "sourced"
  /\ probe.fillStyleId = StyleFillB /\ verdict.selectedLibraryId = LibA
  /\ verdict.libraryMap = HostLibraries
  /\ probe.effectStyleId = NoText /\ DOMAIN probe.boundVariables = {}
  /\ Len(verdict.library) >= 1
  /\ verdict.library[1].message = "Wrong library/Color Fill"
  /\ verdict.library[1].sourceLibraryName = "Design System"

\* The style ids the provenance check reads on the probe
ProbeStyleIds ==
  <<IF probe.hasFills THEN probe.fillStyleId ELSE NoText,
    IF probe.hasStrokes THEN probe.strokeStyleId ELSE NoText,
    IF probe.type = "TEXT" THEN probe.textStyleId ELSE NoText,
    IF probe.hasEffects THEN probe.effectStyleId ELSE NoText>>

\* The style bindings of the probe whose id has a library segment
LibraryStyleBindings ==
  { i \in 1..4 : \E k \in 1..Len(ProbeStyleIds[i]) : ProbeStyleIds[i][k] = "," }

\* The variable bindings of the probe whose collection belongs to a library
LibraryVariableBindings ==
  { p \in DOMAIN probe.boundVariables :
      /\ "id" \in DOMAIN probe.boundVariables[p]
      /\ probe.boundVariables[p].id \in {"varRadiusA", "varRadiusB", "varGapA"} }

\* The probe carries a local style or a local variable
HasLocalBinding ==
  \/ \E i \in 1..4 : ProbeStyleIds[i] # NoText /\ i \notin LibraryStyleBindings
  \/ \E p \in DOMAIN probe.boundVariables :
        "id" \in DOMAIN probe.boundVariables[p] /\ probe.boundVariables[p].id = "varLocal"

\* C16: a style or variable binding without a library segment (a local definition)
\* never yields a wrong-library issue, whichever reference library is selected: the
\* issues are at most one per library binding, each names library A or B, and a
\* node with local bindings only has none.
C16_LocalNeverWrongLibrary ==
  (verdict.stage = "sourced" /\ HasLocalBinding) =>
     /\ Len(verdict.library) <=
           Cardinality(LibraryStyleBindings) + Cardinality(LibraryVariableBindings)
     /\ \A i \in 1..Len(verdict.library) :
           verdict.library[i].sourceLibraryId \in {LibA, LibB} \ {verdict.selectedLibraryId}
     /\ (LibraryStyleBindings = {} /\ LibraryVariableBindings = {}) =>
           verdict.library = <<>>

\* A rectangle with a local fill style, a local fill variable and a stroke style of
\* library A has been checked against library B: only the stroke is reported
C16_Witness ==
  /\ verdict.stage = "sourced"
  /\ probe.fillStyleId = StyleTextLocal /\ probe.strokeStyleId = StyleFillA
  /\ "fills" \in DOMAIN probe.boundVariables
  /\ probe.effectStyleId = NoText
  /\ verdict.selectedLibraryId = LibB
  /\ Len(verdict.library) = 1
  /\ verdict.library[1].type = "stroke"

\* The deduplication key as a tuple: message takes part for radius issues only
KeyOf(issue) ==
  IF issue.type = "radius"
  THEN <<issue.nodeId, issue.type, issue.details, issue.message>>
  ELSE <<issue.nodeId, issue.type, issue.details>>

\* The positions of the raw list that hold the first issue of their key
FirstOfKey ==
  { i \in 1..Len(verdict.issues) :
      \A j \in 1..(i - 1) : KeyOf(verdict.issues[j]) # KeyOf(verdict.issues[i]) }

\* C17: aggregation keeps, for each key -- (nodeId, category, details, message) for
\* radius issues, (nodeId, category, details) for the other categories -- exactly the
\* first raw issue with that key; the counts by category are those of the
\* deduplicated list and sum to its length.
C17_FirstOfEachKeyKept ==
  verdict.stage = "displayed" =>
     /\ Len(verdict.unique) = Cardinality(FirstOfKey)
     /\ \A i \in FirstOfKey :
           \E u \in 1..Len(verdict.unique) : verdict.unique[u] = verdict.issues[i]
     /\ \A u \in 1..Len(verdict.unique) :
           \E i \in FirstOfKey : verdict.issues[i] = verdict.unique[u]
     /\ \A c \in Categories :
           verdict.counts[c] =
              Cardinality({ i \in FirstOfKey : verdict.issues[i].type = c })
     /\ verdict.counts["fill"] + verdict.counts["stroke"] + verdict.counts["text"] +
        verdict.counts["radius"] + verdict.counts["gap"] + verdict.counts["padding"] =
           Len(verdict.unique)

\* A list of a detached fill, a wrong-library fill on the same layer and the detached
\* fill again has been displayed: one fill issue is left, the first
C17_Witness ==
  /\ verdict.stage = "displayed"
  /\ Len(verdict.issues) = 3
  /\ verdict.issues[1] = createFillIssue(Nodes["card"])
  /\ verdict.issues[2].message = "Wrong library/Color Fill"
  /\ verdict.issues[3] = verdict.issues[1]
  /\ verdict.unique = <<verdict.issues[1]>>
  /\ verdict.counts["fill"] = 1

\* C18: the report is generated from the aggregated (deduplicated) issues: its total
\* and its counts by category are those of the deduplicated issue set, not those of
\* the raw scan output.
C18_ReportFromAggregatedIssues ==
  (lastOp.op = "GENERATE_REPORT" /\ Len(emitted) = 1
     /\ emitted[1].type = "REPORT_GENERATED") =>
     /\ emitted[1].payload.total = Len(allUniqueIssues(currentIssues))
     /\ \A c \in Categories :
           emitted[1].payload.byType[c] =
              CountWhere(allUniqueIssues(currentIssues), "type", c)

\* A corner of the probe is settled: its value is 0 or undefined, or it has a
\* variable of its own (a node without individual corners has undefined corners)
CornerSettled(property) ==
  \/ ~probe.hasIndividualCornerRadii
  \/ probe[property] \in {0, Undefined}
  \/ property \in DOMAIN probe.boundVariables
  \/ (property \o ".value") \in DOMAIN probe.boundVariables

AllCornersSettled ==
  /\ CornerSettled("topLeftRadius") /\ CornerSettled("topRightRadius")
  /\ CornerSettled("bottomLeftRadius") /\ CornerSettled("bottomRightRadius")

\* C19: Branch A is decided first: when the node inherits radius variables from its
\* main component or has any radius binding (an effect style included), and every
\* corner is 0/undefined or has its own variable, no radius issue is emitted and one
\* non-issue audit entry is recorded -- even when the aggregate radius is a positive
\* number without a variable.
C19_BranchADecidedFirst ==
  (/\ verdict.stage = "detached" /\ probe.hasCornerRadius
   /\ ~NoRadiusBinding /\ AllCornersSettled) =>
     /\ verdict.radius.issues = <<>>
     /\ Len(verdict.radius.audit) = 1
     /\ verdict.radius.audit[1].nodeId = probe.id
     /\ verdict.radius.audit[1].isIssue = FALSE
     /\ (~probe.locked /\ probe.visible) =>
           /\ CountWhere(verdict.detached.issues, "type", "radius") = 0
           /\ verdict.detached.audit = verdict.radius.audit

\* An ellipse with aggregate radius 8, no variable and an effect style has been
\* evaluated: no radius issue, one non-issue entry
C19_Witness ==
  /\ verdict.stage = "detached"
  /\ probe.type = "ELLIPSE" /\ probe.cornerRadius = 8
  /\ DOMAIN probe.boundVariables = {} /\ probe.effectStyleId = StyleEffectA
  /\ ~probe.locked /\ probe.visible
  /\ CountWhere(verdict.detached.issues, "type", "radius") = 0
  /\ Len(verdict.detached.audit) = 1
  /\ verdict.detached.audit[1].isIssue = FALSE

\* Branch B's condition on the probe: individual corners that are equal and > 0,
\* some radius binding, and every corner settled
BranchBCondition ==
  /\ probe.hasCornerRadius /\ probe.hasIndividualCornerRadii
  /\ probe.topLeftRadius > 0
  /\ probe.topLeftRadius = probe.topRightRadius
  /\ probe.topRightRadius = probe.bottomLeftRadius
  /\ probe.bottomLeftRadius = probe.bottomRightRadius
  /\ ~NoRadiusBinding /\ AllCornersSettled

\* C20: Branch B is never taken: whenever its condition holds Branch A has already
\* decided, so no audit entry carries the "uniform corners with variables" path.
C20_BranchBNeverTaken ==
  verdict.stage = "detached" =>
     /\ \A i \in 1..Len(verdict.radius.audit) :
           verdict.radius.audit[i].decisionPath # "EXCLUDED: Uniform corners with variables"
     /\ \A i \in 1..Len(verdict.detached.audit) :
           verdict.detached.audit[i].decisionPath # "EXCLUDED: Uniform corners with variables"
     /\ BranchBCondition =>
           /\ Len(verdict.radius.audit) = 1
           /\ verdict.radius.audit[1].decisionPath = "EXCLUDED: Has necessary variable bindings"

\* A frame with four corners of 8, each with its own variable, has been evaluated:
\* Branch B's condition holds and the entry is Branch A's
C20_Witness ==
  /\ verdict.stage = "detached"
  /\ probe.type = "FRAME" /\ BranchBCondition
  /\ "bottomLeftRadius" \in DOMAIN probe.boundVariables
  /\ ~probe.locked /\ probe.visible
  /\ Len(verdict.detached.audit) = 1
  /\ verdict.detached.audit[1].decisionPath = "EXCLUDED: Has necessary variable bindings"

\* The category the property name of a bound variable stands for, and its label
PropertyCategory ==
  [ fills |-> "fill", strokes |-> "stroke", strokeWeight |-> "stroke",
    characters |-> "fill", textStyleId |-> "text", fontName |-> "text", fontSize |-> "text",
    cornerRadius |-> "radius", topLeftRadius |-> "radius", topRightRadius |-> "radius",
    bottomLeftRadius |-> "radius", bottomRightRadius |-> "radius",
    itemSpacing |-> "gap", paddingLeft |-> "padding", paddingRight |-> "padding",
    paddingTop |-> "padding", paddingBottom |-> "padding" ]

CategoryLabel ==
  [ fill |-> "Color Fill", stroke |-> "Color Stroke", text |-> "Text Style",
    radius |-> "Radius", gap |-> "Gap", padding |-> "Padding" ]

\* The library of the collection a published variable belongs to
VariableLibrary ==
  ("varRadiusA" :> LibA) @@ ("varRadiusB" :> LibB) @@ ("varGapA" :> LibA)

\* The bound properties of the probe whose variable is of another library than the
\* one the provenance check was run against
ForeignVariableBindings ==
  { p \in LibraryVariableBindings :
      VariableLibrary[probe.boundVariables[p].id] # verdict.selectedLibraryId }

\* C21: the wrong-library issue of a bound variable of another library has the
\* category of the property name -- radius for cornerRadius and the four corner
\* properties, gap for itemSpacing, padding for the four paddings, stroke, text, and
\* fill otherwise -- and the message "Wrong library/<label of that category>".
C21_VariableIssueCategory ==
  (/\ verdict.stage = "sourced"
   /\ ~NodeNameExcepted(probe, verdict.exceptions)
   /\ LibraryStyleBindings = {}) =>
     /\ Len(verdict.library) = Cardinality(ForeignVariableBindings)
     /\ \A p \in ForeignVariableBindings :
           \E i \in 1..Len(verdict.library) :
              /\ verdict.library[i].type = PropertyCategory[p]
              /\ verdict.library[i].message =
                    "Wrong library/" \o CategoryLabel[PropertyCategory[p]]
              /\ verdict.library[i].sourceLibraryId =
                    VariableLibrary[probe.boundVariables[p].id]

\* The library style bindings of the probe whose style name matches no exception
UnexceptedStyleBindings ==
  { i \in LibraryStyleBindings :
      ~matchesExceptions(StyleNames[ProbeStyleIds[i]], verdict.exceptions) }

\* The library variable bindings of the probe whose variable name matches no exception
UnexceptedVariableBindings ==
  { p \in LibraryVariableBindings :
      ~matchesExceptions(VariableNames[probe.boundVariables[p].id], verdict.exceptions) }

\* C22: a style binding (fill, stroke, text, effect) or a bound variable whose
\* display name matches an exception pattern yields no wrong-library issue, whatever
\* its library: the issues are at most one per binding whose name is not excepted.
C22_ExceptedBindingNotReported ==
  verdict.stage = "sourced" =>
     Len(verdict.library) <=
        Cardinality(UnexceptedStyleBindings) + Cardinality(UnexceptedVariableBindings)

\* C23: when the evaluation of a node's properties raises an error in the detachment
\* rules, the error is caught, the node contributes no issue to the scan (the issues
\* found for it before the error included), and the traversal goes on into its
\* children.
C23_FailedNodeContributesNothing ==
  scan.count > 0 =>
     \A e \in 1..Len(scan.evaluated) :
        LET node == Nodes[scan.evaluated[e]]
        IN node.raises # "none" =>
              /\ \A i \in 1..Len(scan.issues) : scan.issues[i].nodeId # node.id
              /\ \A k \in 1..Len(node.children) :
                    \E c \in 1..Len(scan.evaluated) : scan.evaluated[c] = node.children[k]

\* A node is lintable under the exclude flags: not excluded, and with a checkable
\* property group
LintableUnder(node, excludeLocked, excludeHidden) ==
  /\ node.type \notin {"PAGE", "DOCUMENT"}
  /\ ~(excludeLocked /\ node.locked)
  /\ ~(excludeHidden /\ ~node.visible)
  /\ \/ node.type = "TEXT" \/ node.hasFills \/ node.hasStrokes \/ node.hasCornerRadius
     \/ (node.hasLayout /\ node.layoutMode \in {"HORIZONTAL", "VERTICAL"})

\* The lintable nodes of a forest in depth-first order, a parent before its children
\* and the children in document order; excluded children are pruned with their subtree
RECURSIVE DepthFirst(_, _, _)
DepthFirst(ids, excludeLocked, excludeHidden) ==
  IF ids = <<>> THEN <<>>
  ELSE LET node == Nodes[Head(ids)]
           kept(c) == /\ ~(excludeLocked /\ Nodes[c].locked)
                      /\ ~(excludeHidden /\ ~Nodes[c].visible)
       IN (IF LintableUnder(node, excludeLocked, excludeHidden) THEN <<Head(ids)>> ELSE <<>>) \o
          DepthFirst(SelectSeq(node.children, kept), excludeLocked, excludeHidden) \o
          DepthFirst(Tail(ids), excludeLocked, excludeHidden)

\* C24: in a scan the nodes are evaluated depth-first, every parent before its
\* children and the children in document order; each lintable node is passed exactly
\* once to the detachment rules and, only when a reference library is selected,
\* exactly once to the provenance check, which is never invoked without a library.
C24_DepthFirstOncePerNode ==
  scan.count > 0 =>
     /\ scan.evaluated = DepthFirst(scan.roots, scan.inputs.excludeLockedLayers,
                                    scan.inputs.excludeHiddenLayers)
     /\ \A i, j \in 1..Len(scan.evaluated) :
           /\ (i # j => scan.evaluated[i] # scan.evaluated[j])
           /\ (\E k \in 1..Len(Nodes[scan.evaluated[i]].children) :
                  Nodes[scan.evaluated[i]].children[k] = scan.evaluated[j]) => i < j
     /\ scan.sourced = IF scan.inputs.selectedLibraryId # NoText
                       THEN scan.evaluated ELSE <<>>

\* A scan of the page with a reference library has evaluated the card before its
\* title and dot, and passed every evaluated node to the provenance check
C24_Witness ==
  /\ scan.count > 0
  /\ scan.inputs.selectedLibraryId = LibA
  /\ Len(scan.evaluated) >= 6
  /\ SubSeq(scan.evaluated, 1, 3) = <<"card", "title", "dot">>
  /\ scan.sourced = scan.evaluated

\* C25: with excludeLocked and excludeHidden both false, a locked or hidden node with
\* a checkable group is lintable, and checkDetachedStyles returns for it exactly the
\* issues and the audit entries it returns for the same node unlocked and visible
C25_LockedHiddenEvaluatedAlike ==
  (/\ verdict.stage # "none"
   /\ (probe.locked \/ ~probe.visible)
   /\ LintableUnder(probe, FALSE, FALSE)) =>
      verdict.detached =
         checkDetachedStyles([probe EXCEPT !.locked = FALSE, !.visible = TRUE])


\* The radius detachment issues of a list: those createRadiusIssue builds
RECURSIVE RadiusDetachments(_)
RadiusDetachments(issues) ==
  IF issues = <<>> THEN 0
  ELSE (IF /\ Head(issues).type = "radius"
           /\ Head(issues).message = "Corner radius not linked to a variable"
        THEN 1 ELSE 0) + RadiusDetachments(Tail(issues))

C28_ValidSelectionNotRejected ==
  [][ (/\ lastOp'.op = "SCAN_AGAIN"
       /\ selection' = selection
       /\ \E i \in 1..Len(emitted) :
             /\ emitted[i].type = "SELECTION_CHANGE"
             /\ emitted[i].payload.isValid) =>
         ~ \E j \in 1..Len(emitted') :
              /\ emitted'[j].type = "SELECTION_ERROR"
              /\ emitted'[j].payload \in { "Please select 1-5 frames to lint",
                                           "Please select no more than 5 frames" } ]_vars


\* C29: the rescan triggered by UPDATE_EXCLUDE_LOCKED(v) runs with
\* excludeLockedLayers = v, and the rescan triggered by UPDATE_EXCLUDE_HIDDEN(v) with
\* excludeHiddenLayers = v, whatever the start-up loaders and the GET_EXCLUDE_LOCKED /
\* GET_EXCLUDE_HIDDEN handlers do while the update's storage write is pending
C29_RescanUsesRequestedFlag ==
  [][ \A i \in 1..Len(pending) :
         (/\ pending' = RemoveAt(pending, i)
          /\ scan'.count = scan.count + 1) =>
            /\ (pending[i].op = "UPDATE_EXCLUDE_LOCKED" =>
                   scan'.inputs.excludeLockedLayers = pending[i].arg)
            /\ (pending[i].op = "UPDATE_EXCLUDE_HIDDEN" =>
                   scan'.inputs.excludeHiddenLayers = pending[i].arg) ]_vars


\* An UPDATE_ISSUES message is among the messages just sent to the UI
IssuesSent == \E j \in 1..Len(emitted) : emitted[j].type = "UPDATE_ISSUES"

\* The request that was just received put the UI into its loading state: SCAN_AGAIN,
\* or a settings toggle whose handler is now suspended at its storage write
LoadingRequested ==
  \/ lastOp.op = "SCAN_AGAIN"
  \/ /\ lastOp.op \in UpdateOps
     /\ ~lastOp.scanned
     /\ \E i \in 1..Len(pending) : pending[i].op = lastOp.op

\* C30: every request that puts the UI into a loading state (SCAN_AGAIN,
\* UPDATE_EXCLUDE_LOCKED, UPDATE_EXCLUDE_HIDDEN, UPDATE_ISSUE_TYPE_CHECKS) is eventually
\* followed by an UPDATE_ISSUES message, also when the selection is rejected or the
\* write to client storage fails
C30_LoadingEventuallyCleared == LoadingRequested ~> IssuesSent

====
